---- MODULE Spec2Model ----
(***************************************************************************)
(* Calendar assistant: the OpenAI client (pkg/openai: thread cache,        *)
(* assistant resolution, text/image extraction, run polling).              *)
(*                                                                         *)
(* Every message is handled by its own goroutine (bot.go: go               *)
(* b.handleMessage), so several calls of ExtractEventFromText,             *)
(* ExtractEventFromImage and ClearThreadForUser run interleaved on one     *)
(* Client.  A handler is modelled as a process whose position (pc) moves   *)
(* between the points at which the code touches shared state or calls the  *)
(* remote service; every remote call may succeed or fail.                  *)
(***************************************************************************)
EXTENDS Integers, Sequences, FiniteSets, TLC

\* ------------------------------------------------------------------ bounds
NumHandlers == 2
NumUsers == 2
MaxCalls == 3
MaxPolls == 2

Handlers == 1..NumHandlers
Users == 1..NumUsers
\* every call creates at most one thread
ThreadIDs == 1..MaxCalls

\* threadCache[u] = NoThread stands for "userID is not a key of the map".
NoThread == 0

\* ------------------------------------------------------------ program data
\* The statuses a run can be reported in (openai.RunStatus).
RunStatuses ==
    {"queued", "in_progress", "requires_action", "cancelling", "cancelled",
     "failed", "completed", "incomplete", "expired"}

\* c.assistantID: empty, the configured ID, or the ID adopted by name.
NoAssistant == ""
ConfiguredAssistant == "asst_configured"
NamedAssistant == "asst_by_name"
\* c.assistantName, the display name NewClient fixes
AssistantName == "Calendar Assistant"
\* an assistant of the account, as Assistants.List shows it
Assistant(name, id) == [name |-> name, id |-> id]
\* what the account may hold: no assistant of that name, or two of them
\* after another one
Listings ==
    {<<Assistant("Notes", "asst_notes")>>,
     <<Assistant("Notes", "asst_notes"),
       Assistant(AssistantName, NamedAssistant),
       Assistant(AssistantName, "asst_by_name_later")>>}

\* the messages handleMessage sends to the chat
TimezoneRequest == "Before I can process your event, I need to know your timezone."
Processing == "Processing your request..."

ExtractOps == {"text", "image"}

\* The history variables follow the calls made for one user; users are
\* interchangeable, so what holds for this one holds for each.
Watched == NumUsers

\* The handler that runs alone in SpecExtract.
Solo == NumHandlers

VARIABLES
    \* Client
    threadCache,    \* c.threadCache: userID -> threadID (NoThread: no entry)
    assistantID,    \* c.assistantID
    \* remote service
    remoteThreads,  \* the threads that exist upstream
    nextThread,     \* number of threads the service has issued so far
    \* one handler goroutine each
    pc,             \* position in the code
    op,             \* "none", "resolve", "clear", "text", "image", "get", "set"
    user,           \* userID argument
    threadID,       \* getOrCreateThread / ClearThreadForUser: local threadID
    exists,         \* getOrCreateThread / ClearThreadForUser: local exists
    thread,         \* getOrCreateThread: thread.ID of the thread just created
    handle,         \* the thread ID getOrCreateThread returned
    pollCount,      \* pollForCompletion: local pollCount
    tempFile,       \* the temporary image file of this call is on disk
    calls,          \* remote calls made by this call, in order, with result
                    \* (the polls of a run: the latest only)
    ret,            \* what the call returned: [event, err]
    \* history
    conc,           \* per handler: the kinds of call ("resolve", "clear") for
                    \* the same user that overlapped this one
    followsClear,   \* per handler: the resolve directly follows a Clear
    origin,         \* Watched: thread cached by the first creating resolve
    raced,          \* Watched: two resolves of this user have overlapped
    lastDone,       \* Watched: the call that completed last
    evicted,        \* Watched: the handle the last Clear removed
    lastWrite,      \* Watched: the handle of the last cache write since then
    started,        \* number of calls started so far
    \* remote service and clock, downstream of Runs.New
    runStatus,      \* run.Status of the handler's run as the service holds it
    messages,       \* the messages of the handler's thread, oldest first
    now,            \* what time.Now() reads
    \* pollForCompletion, case completed
    jsonContent,    \* per handler: local jsonContent
    event,          \* per handler: the Event the returned *Event points to
    \* GenerateICS
    timezone,       \* argument timezone (prefs.Timezone)
    offset,         \* local offset: seconds east of UTC of loc at time.Now()
    icsContent,     \* the document each GenerateICS call returned, as its lines
    \* around the client
    assistants,     \* the assistants the service lists, as [name, id]
    sent,           \* per handler: what handleMessage has handed to Send,
                    \* in order, a message it deleted taken out
    \* the bot
    userPreferences, \* b.userPreferences: per user the *UserPreferences held
    preferences,    \* the UserPreferences allocated so far: their Timezone
    prefs,          \* getUserPreferences / setUserTimezone: local prefs
    lastSet,        \* per user: the timezone of the last setUserTimezone that
                    \* returned, no other having started since
    expected,       \* per handler: lastSet of the user when the call began
    messageID,      \* handleMessage: message.MessageID
    args,           \* handleMessage: message.CommandArguments() of /timezone
    icsFiles        \* the event_<messageID>.ics files in os.TempDir(): per
                    \* message ID the handler whose document the file holds

vars ==
    <<threadCache, assistantID, remoteThreads, nextThread, pc, op, user,
      threadID, exists, thread, handle, pollCount, tempFile, calls, ret,
      conc, followsClear, origin, raced, lastDone, evicted, lastWrite,
      started, runStatus, messages, now, jsonContent, event, timezone, offset,
      icsContent, assistants, sent, userPreferences, preferences, prefs,
      lastSet, expected, messageID, args, icsFiles>>

remoteVars == <<remoteThreads, nextThread>>
resolveLocals == <<threadID, exists, thread>>
historyVars ==
    <<conc, followsClear, origin, raced, lastDone, evicted, lastWrite>>
\* what the run, the reply and the calendar file are made of
parseLocals == <<jsonContent, event>>
icsVars == <<timezone, offset, icsContent>>
botVars ==
    <<userPreferences, preferences, prefs, lastSet, expected, messageID,
      args, icsFiles>>
downstreamVars ==
    <<runStatus, messages, now, parseLocals, icsVars, assistants, sent,
      botVars>>

\* no UserPreferences: the nil pointer, the missing map entry
NoPrefs == 0
\* no timezone recorded
NoTimezone == "none"
\* message.MessageID of the messages handled at one time: Telegram numbers
\* the messages of each chat on their own
MessageIDs == 1..NumHandlers
NoMessage == 0
\* The arguments of a /timezone command: a zone name (head, with no sign),
\* or head, sign, hours and minutes of an offset such as GMT+5:30; minutes
\* NoMinutes when the string has no ":mm"; the empty string for no
\* arguments.
Arg(head, sign, hours, minutes) ==
    [head |-> head, sign |-> sign, hours |-> hours, minutes |-> minutes]
NoMinutes == -1
Name(head) == Arg(head, "", 0, NoMinutes)
NoArgs == Name("")
NoHandler == 0

\* origin values besides a thread id
NoOrigin == NoThread
VoidOrigin == NoThread - 1

NoUser == NoThread

\* no run has been created
NoRun == "none"

\* A time.Time: sec seconds and nsec nanoseconds after 2024-01-01T00:00:00Z,
\* in a location that is off seconds east of UTC.
TimeOf(sec, off) == [sec |-> sec, off |-> off, nsec |-> 0]

\* the clock before anything reads it
ClockStart == TimeOf(0, 0)

\* the zero Event
NoEvent == [StartTime |-> ClockStart, EndTime |-> ClockStart]

NoReturn == [event |-> "none", err |-> <<>>]

NoError == <<"nil">>

Call(name, result) == [op |-> name, result |-> result]

\* the trace holds a call of name with this result / a call of name
Has(trace, name, result) ==
    \E i \in 1..Len(trace) : trace[i] = Call(name, result)

HasAny(trace, name) == \E i \in 1..Len(trace) : trace[i].op = name

Called(h, name, result) == Has(calls[h], name, result)

CalledAny(h, name) == HasAny(calls[h], name)

OkErr(ok) == IF ok THEN "ok" ELSE "err"

ResolvePCs == {"cacheRead", "probe", "create", "cacheWrite"}
ClearPCs == {"clearRead", "clearDelete"}

\* the handlers other than h that are inside getOrCreateThread for user u
Resolving(h, u) == {g \in Handlers \ {h} : user[g] = u /\ pc[g] \in ResolvePCs}
\* the handlers other than h that are inside ClearThreadForUser for user u
Clearing(h, u) == {g \in Handlers \ {h} : user[g] = u /\ pc[g] \in ClearPCs}

\* NewBot: userPreferences is an empty map; no message is being handled and
\* no calendar file is on disk
NoPreferences ==
    /\ userPreferences = [u \in Users |-> NoPrefs]
    /\ preferences = <<>>
    /\ prefs = [h \in Handlers |-> NoPrefs]
    /\ lastSet = [u \in Users |-> NoTimezone]
    /\ expected = [h \in Handlers |-> NoTimezone]
    /\ messageID = [h \in Handlers |-> NoMessage]
    /\ args = [h \in Handlers |-> NoArgs]
    /\ icsFiles = [m \in MessageIDs |-> NoHandler]

\* The client NewClient(cfg) returns, cfg.OpenAIAssistantID = configured, and
\* the handlers, none of which has begun.
FreshClient(configured) ==
    /\ threadCache = [u \in Users |-> NoThread]
    /\ assistantID = configured
    /\ remoteThreads = {}
    /\ nextThread = 0
    /\ pc = [h \in Handlers |-> "idle"]
    /\ op = [h \in Handlers |-> "none"]
    /\ user = [h \in Handlers |-> NoUser]
    /\ threadID = [h \in Handlers |-> NoThread]
    /\ exists = [h \in Handlers |-> FALSE]
    /\ thread = [h \in Handlers |-> NoThread]
    /\ handle = [h \in Handlers |-> NoThread]
    /\ pollCount = [h \in Handlers |-> 0]
    /\ tempFile = [h \in Handlers |-> FALSE]
    /\ calls = [h \in Handlers |-> <<>>]
    /\ ret = [h \in Handlers |-> NoReturn]
    /\ conc = [h \in Handlers |-> {}]
    /\ followsClear = [h \in Handlers |-> FALSE]
    /\ origin = NoOrigin
    /\ raced = FALSE
    /\ lastDone = "none"
    /\ evicted = NoThread
    /\ lastWrite = NoThread
    /\ started = 0
    /\ sent = [h \in Handlers |-> <<>>]
    /\ NoPreferences

\* no handler is in case completed of pollForCompletion
NoLocals ==
    /\ jsonContent = [h \in Handlers |-> <<>>]
    /\ event = [h \in Handlers |-> NoEvent]

\* GenerateICS has not been called; the user's timezone is the default
NoCalendar ==
    /\ timezone = "UTC"
    /\ offset = 0
    /\ icsContent = [h \in Handlers |-> <<>>]

\* No run has been created, no reply received, no calendar file made.
NothingDownstream ==
    /\ runStatus = NoRun
    /\ messages = <<>>
    /\ now = ClockStart
    /\ NoLocals
    /\ NoCalendar

\* NewClient(cfg) with cfg.OpenAIAssistantID = configured
NewClient(configured) ==
    FreshClient(configured) /\ NothingDownstream /\ assistants = <<>>

Init == NewClient(ConfiguredAssistant)

\* --------------------------------------------------------------- helpers
\* Return without the deferred os.Remove.
Return_KeepTemp(h, result, err) ==
    /\ pc' = [pc EXCEPT ![h] = "done"]
    /\ ret' = [ret EXCEPT ![h] = [event |-> result, err |-> err]]
    /\ UNCHANGED tempFile

\* The call of handler h returns (event, err) to its caller.  The deferred
\* os.Remove of ExtractEventFromImage runs on every return.
Return(h, result, err) ==
    /\ pc' = [pc EXCEPT ![h] = "done"]
    /\ ret' = [ret EXCEPT ![h] = [event |-> result, err |-> err]]
    /\ tempFile' = [tempFile EXCEPT ![h] = FALSE]

\* Control of handler h enters getOrCreateThread or ClearThreadForUser for
\* user u, at position first.
EnterCall(h, u, first) ==
    LET others == Resolving(h, u) \cup Clearing(h, u)
        KindAt(p) == IF p \in ResolvePCs THEN "resolve" ELSE "clear"
    IN  /\ pc' = [pc EXCEPT ![h] = first]
        /\ conc' = [g \in Handlers |->
                        IF g = h THEN {KindAt(pc[o]) : o \in others}
                        ELSE IF g \in others
                             THEN conc[g] \cup {KindAt(first)}
                             ELSE conc[g]]

EnterResolve(h, u) ==
    /\ EnterCall(h, u, "cacheRead")
    /\ raced' = (raced \/ (u = Watched /\ Resolving(h, u) # {}))
    /\ followsClear' = [followsClear EXCEPT
                           ![h] = u = Watched /\ lastDone = "clear"]

\* A completed call for user u is recorded for the watched user.
Completed(u, what) == lastDone' = IF u = Watched THEN what ELSE lastDone

\* The statement that follows the call of getOrCreateThread.
AfterResolve(h) ==
    CASE op[h] = "image" -> "createTemp"
      [] op[h] = "text" -> "postMessage"
      [] OTHER -> "done"

\* getOrCreateThread returns (id, nil).
ResolveReturns(h, id) ==
    /\ pc' = [pc EXCEPT ![h] = AfterResolve(h)]
    /\ handle' = [handle EXCEPT ![h] = id]
    /\ ret' = [ret EXCEPT
                  ![h] = IF op[h] = "resolve"
                         THEN [event |-> "none", err |-> NoError] ELSE @]
    /\ Completed(user[h], "resolve")

\* ------------------------------------------------------------ the callers
\* A goroutine calls getOrCreateThread(ctx, u), as Extract* does.
StartResolve(h, u) ==
    /\ pc[h] = "idle"
    /\ started < MaxCalls
    /\ started' = started + 1
    /\ op' = [op EXCEPT ![h] = "resolve"]
    /\ user' = [user EXCEPT ![h] = u]
    /\ EnterResolve(h, u)
    /\ UNCHANGED <<threadCache, assistantID, remoteVars, resolveLocals, handle,
                   pollCount, tempFile, calls, ret, origin, lastDone, evicted, lastWrite>>
    /\ UNCHANGED downstreamVars

\* A goroutine calls ClearThreadForUser(ctx, u), as the /clear command does.
StartClear(h, u) ==
    /\ pc[h] = "idle"
    /\ started < MaxCalls
    /\ started' = started + 1
    /\ op' = [op EXCEPT ![h] = "clear"]
    /\ user' = [user EXCEPT ![h] = u]
    /\ EnterCall(h, u, "clearRead")
    /\ UNCHANGED <<threadCache, assistantID, remoteVars, resolveLocals, handle,
                   pollCount, tempFile, calls, ret, followsClear, origin,
                   raced, lastDone, evicted, lastWrite>>
    /\ UNCHANGED downstreamVars

\* A goroutine calls ExtractEventFromText or ExtractEventFromImage.
StartExtract(h, u, kind) ==
    /\ pc[h] = "idle"
    /\ started < MaxCalls
    /\ started' = started + 1
    /\ pc' = [pc EXCEPT ![h] = "initAssistant"]
    /\ op' = [op EXCEPT ![h] = kind]
    /\ user' = [user EXCEPT ![h] = u]
    /\ UNCHANGED <<threadCache, assistantID, remoteVars, resolveLocals, handle,
                   pollCount, tempFile, calls, ret, historyVars>>
    /\ UNCHANGED downstreamVars

\* The frame of handler h is gone: its locals are as before the call.
Released(h) ==
    /\ pc' = [pc EXCEPT ![h] = "idle"]
    /\ op' = [op EXCEPT ![h] = "none"]
    /\ user' = [user EXCEPT ![h] = NoUser]
    /\ threadID' = [threadID EXCEPT ![h] = NoThread]
    /\ exists' = [exists EXCEPT ![h] = FALSE]
    /\ thread' = [thread EXCEPT ![h] = NoThread]
    /\ handle' = [handle EXCEPT ![h] = NoThread]
    /\ pollCount' = [pollCount EXCEPT ![h] = 0]
    /\ calls' = [calls EXCEPT ![h] = <<>>]
    /\ ret' = [ret EXCEPT ![h] = NoReturn]
    /\ conc' = [conc EXCEPT ![h] = {}]
    /\ followsClear' = [followsClear EXCEPT ![h] = FALSE]
    /\ jsonContent' = [jsonContent EXCEPT ![h] = <<>>]
    /\ event' = [event EXCEPT ![h] = NoEvent]
    /\ icsContent' = [icsContent EXCEPT ![h] = <<>>]
    /\ sent' = [sent EXCEPT ![h] = <<>>]
    /\ prefs' = [prefs EXCEPT ![h] = NoPrefs]
    /\ expected' = [expected EXCEPT ![h] = NoTimezone]
    /\ messageID' = [messageID EXCEPT ![h] = NoMessage]
    /\ args' = [args EXCEPT ![h] = NoArgs]
    /\ UNCHANGED <<threadCache, assistantID, remoteVars, tempFile, origin,
                   raced, lastDone, evicted, lastWrite, started, runStatus,
                   messages, now, timezone, offset, assistants,
                   userPreferences, preferences, lastSet, icsFiles>>

\* The call has returned and its frame is gone.
Finish(h) == pc[h] = "done" /\ Released(h)

\* ---------------------------------------------------- InitializeAssistant
\* if c.assistantID != "" { Assistants.Get ... }
InitAssistantGet(h) ==
    /\ pc[h] = "initAssistant"
    /\ IF assistantID # NoAssistant
       THEN \E ok \in BOOLEAN :
               /\ calls' = [calls EXCEPT
                               ![h] = Append(@, Call("Assistants.Get", OkErr(ok)))]
               /\ IF ok
                  THEN /\ EnterResolve(h, user[h])
                       /\ UNCHANGED assistantID
                  ELSE /\ assistantID' = NoAssistant
                       /\ pc' = [pc EXCEPT ![h] = "listAssistants"]
                       /\ UNCHANGED <<raced, conc, followsClear>>
       ELSE /\ pc' = [pc EXCEPT ![h] = "listAssistants"]
            /\ UNCHANGED <<assistantID, calls, raced, conc, followsClear>>
    /\ UNCHANGED <<threadCache, remoteVars, op, user, resolveLocals, handle,
                   pollCount, tempFile, ret, origin, lastDone, evicted, lastWrite, started>>
    /\ UNCHANGED downstreamVars

\* FirstNamed adopting the last assistant of that name.
FirstNamed_Last(listed, name) ==
    LET at == {i \in 1..Len(listed) : listed[i].name = name}
    IN  IF at = {} THEN NoAssistant
        ELSE listed[CHOOSE i \in at : \A j \in at : i >= j].id

\* for _, assistant := range assistants.Data
\* { if assistant.Name == c.assistantName { ... assistant.ID ... } }:
\* the ID of the first assistant of that name, none if there is none
FirstNamed(listed, name) ==
    LET at == {i \in 1..Len(listed) : listed[i].name = name}
    IN  IF at = {} THEN NoAssistant
        ELSE listed[CHOOSE i \in at : \A j \in at : i <= j].id

\* Assistants.List and the search for an assistant named c.assistantName
InitAssistantList(h) ==
    /\ pc[h] = "listAssistants"
    /\ \E ok \in BOOLEAN :
          /\ calls' = [calls EXCEPT
                          ![h] = Append(@, Call("Assistants.List", OkErr(ok)))]
          /\ IF ~ok
             THEN /\ Return(h, "nil", <<"failed to list assistants">>)
                  /\ UNCHANGED <<assistantID, raced, conc, followsClear>>
             ELSE /\ EnterResolve(h, user[h])
                  /\ assistantID' =
                        IF FirstNamed(assistants, AssistantName) # NoAssistant
                        THEN FirstNamed(assistants, AssistantName)
                        ELSE assistantID
                  /\ UNCHANGED <<ret, tempFile>>
    /\ UNCHANGED <<threadCache, remoteVars, op, user, resolveLocals, handle,
                   pollCount, origin, lastDone, evicted, lastWrite, started>>
    /\ UNCHANGED downstreamVars

\* ------------------------------------------------------ getOrCreateThread
\* RLock; threadID, exists := c.threadCache[userID]; RUnlock
CacheRead(h) ==
    /\ pc[h] = "cacheRead"
    /\ threadID' = [threadID EXCEPT ![h] = threadCache[user[h]]]
    /\ exists' = [exists EXCEPT ![h] = threadCache[user[h]] # NoThread]
    /\ pc' = [pc EXCEPT
                 ![h] = IF threadCache[user[h]] # NoThread THEN "probe"
                        ELSE "create"]
    /\ UNCHANGED <<threadCache, assistantID, remoteVars, op, user, thread,
                   handle, pollCount, tempFile, calls, ret, historyVars, started>>
    /\ UNCHANGED downstreamVars

\* ProbeThread with the early return lost: a thread found upstream is
\* replaced all the same.
ProbeThread_Recreate(h) ==
    /\ pc[h] = "probe"
    /\ \E fate \in {"found", "gone", "unreachable"} :
          LET ok == fate = "found" /\ threadID[h] \in remoteThreads
          IN  /\ calls' = [calls EXCEPT
                              ![h] = Append(@, Call("Threads.Get", OkErr(ok)))]
              /\ remoteThreads' = IF fate = "gone"
                                  THEN remoteThreads \ {threadID[h]}
                                  ELSE remoteThreads
              /\ pc' = [pc EXCEPT ![h] = "create"]
              /\ origin' = IF user[h] = Watched /\ origin # NoOrigin /\ ~ok
                           THEN VoidOrigin ELSE origin
              /\ UNCHANGED <<handle, ret, lastDone>>
    /\ UNCHANGED <<threadCache, assistantID, nextThread, op, user,
                   resolveLocals, pollCount, tempFile, raced, conc,
                   followsClear, evicted, lastWrite, started>>
    /\ UNCHANGED downstreamVars

\* ProbeThread deleting the cache entry when the probe fails.
ProbeThread_Evict(h) ==
    /\ pc[h] = "probe"
    /\ \E fate \in {"found", "gone", "unreachable"} :
          LET ok == fate = "found" /\ threadID[h] \in remoteThreads
          IN  /\ calls' = [calls EXCEPT
                              ![h] = Append(@, Call("Threads.Get", OkErr(ok)))]
              /\ remoteThreads' = IF fate = "gone"
                                  THEN remoteThreads \ {threadID[h]}
                                  ELSE remoteThreads
              /\ IF ok
                 THEN /\ ResolveReturns(h, threadID[h])
                      /\ UNCHANGED <<origin, threadCache>>
                 ELSE /\ pc' = [pc EXCEPT ![h] = "create"]
                      /\ threadCache' = [threadCache EXCEPT
                                            ![user[h]] = NoThread]
                      /\ origin' = IF user[h] = Watched /\ origin # NoOrigin
                                   THEN VoidOrigin ELSE origin
                      /\ UNCHANGED <<handle, ret, lastDone>>
    /\ UNCHANGED <<assistantID, nextThread, op, user, resolveLocals, pollCount,
                   tempFile, raced, conc, followsClear, evicted, lastWrite,
                   started>>
    /\ UNCHANGED downstreamVars

\* if exists { _, err := Threads.Get(ctx, threadID); if err == nil { return } }
\* The call fails when the thread is gone upstream (it may just have been
\* deleted or have expired there) or when the service cannot be reached.
ProbeThread(h) ==
    /\ pc[h] = "probe"
    /\ \E fate \in {"found", "gone", "unreachable"} :
          LET ok == fate = "found" /\ threadID[h] \in remoteThreads
          IN  /\ calls' = [calls EXCEPT
                              ![h] = Append(@, Call("Threads.Get", OkErr(ok)))]
              /\ remoteThreads' = IF fate = "gone"
                                  THEN remoteThreads \ {threadID[h]}
                                  ELSE remoteThreads
              /\ IF ok
                 THEN /\ ResolveReturns(h, threadID[h])
                      /\ UNCHANGED origin
                 ELSE /\ pc' = [pc EXCEPT ![h] = "create"]
                      /\ origin' = IF user[h] = Watched /\ origin # NoOrigin
                                   THEN VoidOrigin ELSE origin
                      /\ UNCHANGED <<handle, ret, lastDone>>
    /\ UNCHANGED <<threadCache, assistantID, nextThread, op, user,
                   resolveLocals, pollCount, tempFile, raced, conc,
                   followsClear, evicted, lastWrite, started>>
    /\ UNCHANGED downstreamVars

\* CreateThread dropping the user's cache entry when creation fails.
CreateThread_Drop(h) ==
    /\ pc[h] = "create"
    /\ \/ /\ nextThread + 1 \in ThreadIDs
          /\ nextThread' = nextThread + 1
          /\ remoteThreads' = remoteThreads \cup {nextThread + 1}
          /\ thread' = [thread EXCEPT ![h] = nextThread + 1]
          /\ calls' = [calls EXCEPT ![h] = Append(@, Call("Threads.New", "ok"))]
          /\ pc' = [pc EXCEPT ![h] = "cacheWrite"]
          /\ UNCHANGED <<ret, tempFile, lastDone, threadCache>>
       \/ /\ calls' = [calls EXCEPT ![h] = Append(@, Call("Threads.New", "err"))]
          /\ Return(h, "nil", <<"failed to create thread">>)
          /\ Completed(user[h], "resolve")
          /\ threadCache' = [threadCache EXCEPT ![user[h]] = NoThread]
          /\ UNCHANGED <<remoteVars, thread>>
    /\ UNCHANGED <<assistantID, op, user, threadID, exists, handle, pollCount,
                   origin, raced, conc, followsClear, evicted, lastWrite,
                   started>>
    /\ UNCHANGED downstreamVars

\* thread, err := Threads.New(...); if err != nil { return "", err }
\* and, in Extract*, if err != nil { return nil, err }
CreateThread(h) ==
    /\ pc[h] = "create"
    /\ \/ /\ nextThread + 1 \in ThreadIDs
          /\ nextThread' = nextThread + 1
          /\ remoteThreads' = remoteThreads \cup {nextThread + 1}
          /\ thread' = [thread EXCEPT ![h] = nextThread + 1]
          /\ calls' = [calls EXCEPT ![h] = Append(@, Call("Threads.New", "ok"))]
          /\ pc' = [pc EXCEPT ![h] = "cacheWrite"]
          /\ UNCHANGED <<ret, tempFile, lastDone>>
       \/ /\ calls' = [calls EXCEPT ![h] = Append(@, Call("Threads.New", "err"))]
          /\ Return(h, "nil", <<"failed to create thread">>)
          /\ Completed(user[h], "resolve")
          /\ UNCHANGED <<remoteVars, thread>>
    /\ UNCHANGED <<threadCache, assistantID, op, user, threadID, exists,
                   handle, pollCount, origin, raced, conc, followsClear,
                   evicted, lastWrite, started>>
    /\ UNCHANGED downstreamVars

\* CacheWrite with one assignment changed: entry(h) is what the map holds
\* after it.
CacheWriteAs(h, entry) ==
    /\ pc[h] = "cacheWrite"
    /\ threadCache' = entry
    /\ origin' = IF user[h] = Watched /\ origin = NoOrigin
                 THEN thread[h] ELSE origin
    /\ lastWrite' = IF user[h] = Watched THEN thread[h] ELSE lastWrite
    /\ ResolveReturns(h, thread[h])
    /\ UNCHANGED <<assistantID, remoteVars, op, user, resolveLocals, pollCount,
                   tempFile, calls, raced, conc, followsClear, evicted,
                   started>>
    /\ UNCHANGED downstreamVars

\* the entry is written only when the user has none
CacheWrite_IfAbsent(h) ==
    CacheWriteAs(h, IF threadCache[user[h]] = NoThread
                    THEN [threadCache EXCEPT ![user[h]] = thread[h]]
                    ELSE threadCache)

\* the looked-up threadID is written instead of thread.ID
CacheWrite_Stale(h) ==
    CacheWriteAs(h, [threadCache EXCEPT ![user[h]] = threadID[h]])

\* the entry is written under every key
CacheWrite_AllKeys(h) == CacheWriteAs(h, [u \in Users |-> thread[h]])

\* Lock; c.threadCache[userID] = thread.ID; Unlock; return thread.ID, nil
CacheWrite(h) ==
    /\ pc[h] = "cacheWrite"
    /\ threadCache' = [threadCache EXCEPT ![user[h]] = thread[h]]
    /\ origin' = IF user[h] = Watched /\ origin = NoOrigin
                 THEN thread[h] ELSE origin
    /\ lastWrite' = IF user[h] = Watched THEN thread[h] ELSE lastWrite
    /\ ResolveReturns(h, thread[h])
    /\ UNCHANGED <<assistantID, remoteVars, op, user, resolveLocals, pollCount,
                   tempFile, calls, raced, conc, followsClear, evicted,
                   started>>
    /\ UNCHANGED downstreamVars

\* ----------------------------------------------------- ClearThreadForUser
\* RLock; threadID, exists := c.threadCache[userID]; RUnlock
\* if !exists { return nil }
ClearRead(h) ==
    /\ pc[h] = "clearRead"
    /\ threadID' = [threadID EXCEPT ![h] = threadCache[user[h]]]
    /\ exists' = [exists EXCEPT ![h] = threadCache[user[h]] # NoThread]
    /\ IF threadCache[user[h]] # NoThread
       THEN /\ pc' = [pc EXCEPT ![h] = "clearDelete"]
            /\ UNCHANGED <<ret, tempFile, lastDone, evicted>>
       ELSE /\ Return(h, "none", NoError)
            /\ Completed(user[h], IF conc[h] # {} THEN "clearRaced" ELSE "clear")
            /\ evicted' = IF user[h] = Watched THEN NoThread ELSE evicted
    /\ UNCHANGED <<threadCache, assistantID, remoteVars, op, user, thread,
                   handle, pollCount, calls, origin, raced, conc, followsClear, started,
                   lastWrite>>
    /\ UNCHANGED downstreamVars

\* ClearDelete with one statement changed: entry is what the map holds after
\* it, upstream the threads that then exist.
ClearDeleteAs(h, entry, upstream) ==
    /\ pc[h] = "clearDelete"
    /\ threadCache' = entry
    /\ remoteThreads' = upstream
    /\ Return(h, "none", NoError)
    /\ Completed(user[h], IF conc[h] # {} THEN "clearRaced" ELSE "clear")
    /\ IF user[h] = Watched
       THEN /\ evicted' = threadCache[user[h]]
            /\ lastWrite' = NoThread
            /\ origin' = NoOrigin
            /\ raced' = (raced /\ Resolving(h, user[h]) # {})
       ELSE UNCHANGED <<evicted, lastWrite, origin, raced>>
    /\ UNCHANGED <<assistantID, nextThread, op, user, resolveLocals, handle,
                   pollCount, calls, conc, followsClear, started>>
    /\ UNCHANGED downstreamVars

\* the delete is lost
ClearDelete_Keep(h) == ClearDeleteAs(h, threadCache, remoteThreads)

\* the thread is deleted upstream as well
ClearDelete_Remote(h) ==
    ClearDeleteAs(h, [threadCache EXCEPT ![user[h]] = NoThread],
                  remoteThreads \ {threadID[h]})

\* the whole map is emptied
ClearDelete_All(h) ==
    ClearDeleteAs(h, [u \in Users |-> NoThread], remoteThreads)

\* Lock; delete(c.threadCache, userID); Unlock; return nil
ClearDelete(h) ==
    /\ pc[h] = "clearDelete"
    /\ threadCache' = [threadCache EXCEPT ![user[h]] = NoThread]
    /\ Return(h, "none", NoError)
    /\ Completed(user[h], IF conc[h] # {} THEN "clearRaced" ELSE "clear")
    /\ IF user[h] = Watched
       THEN /\ evicted' = threadCache[user[h]]
            /\ lastWrite' = NoThread
            /\ origin' = NoOrigin
            /\ raced' = (raced /\ Resolving(h, user[h]) # {})
       ELSE UNCHANGED <<evicted, lastWrite, origin, raced>>
    /\ UNCHANGED <<assistantID, remoteVars, op, user, resolveLocals, handle,
                   pollCount, calls, conc, followsClear, started>>
    /\ UNCHANGED downstreamVars

\* ------------------------------------------ Extract*: after the thread
extractFrame ==
    <<threadCache, assistantID, remoteVars, op, user, resolveLocals, handle,
      historyVars, started>>

\* os.CreateTemp("", "event-image-*.png"); defer os.Remove(tempFile.Name())
CreateTemp(h) ==
    /\ pc[h] = "createTemp"
    /\ \/ /\ pc' = [pc EXCEPT ![h] = "writeTemp"]
          /\ tempFile' = [tempFile EXCEPT ![h] = TRUE]
          /\ UNCHANGED ret
       \/ Return(h, "nil", <<"failed to create temporary file">>)
    /\ UNCHANGED <<extractFrame, pollCount, calls>>
    /\ UNCHANGED downstreamVars

\* tempFile.Write(imageData); tempFile.Close()
WriteTemp(h) ==
    /\ pc[h] = "writeTemp"
    /\ \/ /\ pc' = [pc EXCEPT ![h] = "openTemp"]
          /\ UNCHANGED <<ret, tempFile>>
       \/ Return(h, "nil", <<"failed to write image data to temporary file">>)
    /\ UNCHANGED <<extractFrame, pollCount, calls>>
    /\ UNCHANGED downstreamVars

\* os.Open(tempFile.Name()); defer file.Close()
OpenTemp(h) ==
    /\ pc[h] = "openTemp"
    /\ \/ /\ pc' = [pc EXCEPT ![h] = "upload"]
          /\ UNCHANGED <<ret, tempFile>>
       \/ Return(h, "nil", <<"failed to open temporary file">>)
    /\ UNCHANGED <<extractFrame, pollCount, calls>>
    /\ UNCHANGED downstreamVars

\* Files.New(ctx, {File, Purpose: vision})
UploadImage(h) ==
    /\ pc[h] = "upload"
    /\ \E ok \in BOOLEAN :
          /\ calls' = [calls EXCEPT ![h] = Append(@, Call("Files.New", OkErr(ok)))]
          /\ IF ok
             THEN /\ pc' = [pc EXCEPT ![h] = "postMessage"]
                  /\ UNCHANGED <<ret, tempFile>>
             ELSE Return(h, "nil", <<"failed to upload image">>)
    /\ UNCHANGED <<extractFrame, pollCount>>
    /\ UNCHANGED downstreamVars

\* PostMessage going on to the run when the message was refused.
PostMessage_Ignore(h) ==
    /\ pc[h] = "postMessage"
    /\ \E ok \in BOOLEAN :
          calls' = [calls EXCEPT
                       ![h] = Append(@, Call("Messages.New", OkErr(ok)))]
    /\ pc' = [pc EXCEPT ![h] = "createRun"]
    /\ UNCHANGED <<ret, tempFile>>
    /\ UNCHANGED <<extractFrame, pollCount>>
    /\ UNCHANGED downstreamVars

\* Threads.Messages.New(ctx, threadID, {Role: user, Content: ...})
PostMessage(h) ==
    /\ pc[h] = "postMessage"
    /\ \E ok \in BOOLEAN :
          /\ calls' = [calls EXCEPT
                          ![h] = Append(@, Call("Messages.New", OkErr(ok)))]
          /\ IF ok
             THEN /\ pc' = [pc EXCEPT ![h] = "createRun"]
                  /\ UNCHANGED <<ret, tempFile>>
             ELSE Return(h, "nil", <<"failed to create message">>)
    /\ UNCHANGED <<extractFrame, pollCount>>
    /\ UNCHANGED downstreamVars

\* Threads.Runs.New(ctx, threadID, {AssistantID: c.assistantID}); the service
\* refuses a run with no assistant.  On success pollForCompletion starts.
CreateRun(h) ==
    /\ pc[h] = "createRun"
    /\ \E accepted \in BOOLEAN :
          LET ok == accepted /\ assistantID # NoAssistant
          IN  /\ calls' = [calls EXCEPT
                              ![h] = Append(@, Call("Runs.New", OkErr(ok)))]
              /\ IF ok
                 THEN /\ pc' = [pc EXCEPT ![h] = "poll"]
                      /\ UNCHANGED <<ret, tempFile>>
                 ELSE Return(h, "nil", <<"failed to create run">>)
    /\ UNCHANGED <<extractFrame, pollCount>>
    /\ UNCHANGED downstreamVars

\* ------------------------------------------------------ pollForCompletion
\* fmt.Errorf("run failed with status: %s", run.Status)
ErrRunFailed(status) == <<"run failed with status: ", status>>

\* fmt.Errorf("run requires action, not implemented")
ErrRequiresAction == <<"run requires action, not implemented">>

\* StatusCase with expired missing from the failure case.
StatusCase_NoExpired(status) ==
    CASE status = "completed" -> "extract"
      [] status \in {"failed", "cancelled"} -> "fail"
      [] status = "requires_action" -> "unsupported"
      [] OTHER -> "sleep"

\* StatusCase with requires_action left to the default branch.
StatusCase_AwaitAction(status) ==
    CASE status = "completed" -> "extract"
      [] status \in {"failed", "cancelled", "expired"} -> "fail"
      [] OTHER -> "sleep"

\* What the switch on run.Status does with a status: "extract" (case
\* completed), "fail" (failed, cancelled, expired), "unsupported"
\* (requires_action), "sleep" (default).
StatusCase(status) ==
    CASE status = "completed" -> "extract"
      [] status \in {"failed", "cancelled", "expired"} -> "fail"
      [] status = "requires_action" -> "unsupported"
      [] OTHER -> "sleep"

\* The record of calls after one more Runs.Get: the polls of one loop are
\* kept as one entry, the latest (pollCount counts them).
Polled(trace, outcome) ==
    IF trace # <<>> /\ trace[Len(trace)].op = "Runs.Get"
    THEN [trace EXCEPT ![Len(trace)] = Call("Runs.Get", outcome)]
    ELSE Append(trace, Call("Runs.Get", outcome))

\* PollStep asking again after a failed Runs.Get.
PollStep_Retry(h, outcome) ==
    /\ calls' = [calls EXCEPT ![h] = Polled(@, outcome)]
    /\ pollCount' = [pollCount EXCEPT ![h] = @ + 1]
    /\ IF outcome = "err"
       THEN /\ pollCount[h] < MaxPolls
            /\ UNCHANGED <<pc, ret, tempFile>>
       ELSE CASE StatusCase(outcome) = "extract" ->
                    /\ pc' = [pc EXCEPT ![h] = "listMessages"]
                    /\ UNCHANGED <<ret, tempFile>>
              [] StatusCase(outcome) = "fail" ->
                    Return(h, "nil", ErrRunFailed(outcome))
              [] StatusCase(outcome) = "unsupported" ->
                    Return(h, "nil", ErrRequiresAction)
              [] StatusCase(outcome) = "sleep" ->
                    /\ pollCount[h] < MaxPolls
                    /\ UNCHANGED <<pc, ret, tempFile>>

\* One turn of the for loop: pollCount++, Runs.Get, switch run.Status.
\* outcome is "err" (the call failed) or the status the service reports.
PollStep(h, outcome) ==
    /\ calls' = [calls EXCEPT ![h] = Polled(@, outcome)]
    /\ pollCount' = [pollCount EXCEPT ![h] = @ + 1]
    /\ IF outcome = "err"
       THEN Return(h, "nil", <<"failed to retrieve run">>)
       ELSE CASE StatusCase(outcome) = "extract" ->
                    /\ pc' = [pc EXCEPT ![h] = "listMessages"]
                    /\ UNCHANGED <<ret, tempFile>>
              [] StatusCase(outcome) = "fail" ->
                    Return(h, "nil", ErrRunFailed(outcome))
              [] StatusCase(outcome) = "unsupported" ->
                    Return(h, "nil", ErrRequiresAction)
              [] StatusCase(outcome) = "sleep" ->
                    \* time.Sleep(1 * time.Second), then the next turn
                    /\ pollCount[h] < MaxPolls
                    /\ UNCHANGED <<pc, ret, tempFile>>

PollRun(h) ==
    /\ pc[h] = "poll"
    /\ \E outcome \in RunStatuses \cup {"err"} : PollStep(h, outcome)
    /\ UNCHANGED extractFrame
    /\ UNCHANGED downstreamVars

\* case completed: Messages.List(order desc, limit 1) and what is made of
\* the newest message
ListMessages(h) ==
    /\ pc[h] = "listMessages"
    /\ \E outcome \in {"err", "empty", "notAssistant", "noText", "badJSON",
                       "event"} :
          /\ calls' = [calls EXCEPT
                          ![h] = Append(@, Call("Messages.List",
                                                OkErr(outcome # "err")))]
          /\ CASE outcome = "err" ->
                    Return(h, "nil", <<"failed to list messages">>)
               [] outcome = "empty" ->
                    Return(h, "nil", <<"no messages found">>)
               [] outcome = "notAssistant" ->
                    Return(h, "nil", <<"unexpected message role: ", "user">>)
               [] outcome = "noText" ->
                    Return(h, "nil",
                           <<"no text content found in assistant message">>)
               [] outcome = "badJSON" ->
                    Return(h, "nil", <<"failed to parse event data">>)
               [] outcome = "event" ->
                    Return(h, "event", NoError)
    /\ UNCHANGED <<extractFrame, pollCount>>
    /\ UNCHANGED downstreamVars

\* ------------------------------------- the thread cache under concurrency
\* Handler goroutines call getOrCreateThread and ClearThreadForUser on one
\* Client, interleaved at the granularity of the lock sections and the
\* remote calls.
Next ==
    \/ \E h \in Handlers, u \in Users : StartResolve(h, u)
    \/ \E h \in Handlers, u \in Users : StartClear(h, u)
    \/ \E h \in Handlers : CacheRead(h)
    \/ \E h \in Handlers : ProbeThread(h)
    \/ \E h \in Handlers : CreateThread(h)
    \/ \E h \in Handlers : CacheWrite(h)
    \/ \E h \in Handlers : ClearRead(h)
    \/ \E h \in Handlers : ClearDelete(h)
    \/ \E h \in Handlers : Finish(h)

Spec == Init /\ [][Next]_vars

\* ------------------------------------------------- one extraction at a time
\* One goroutine makes calls of ExtractEventFromText, ExtractEventFromImage
\* and ClearThreadForUser one after the other, each followed step by step.
InitExtract ==
    \E configured \in {NoAssistant, ConfiguredAssistant} :
        /\ FreshClient(configured)
        /\ NothingDownstream
        /\ assistants \in Listings

NextExtract ==
    \/ \E u \in Users, kind \in ExtractOps : StartExtract(Solo, u, kind)
    \/ \E u \in Users : StartClear(Solo, u)
    \/ InitAssistantGet(Solo)
    \/ InitAssistantList(Solo)
    \/ CacheRead(Solo)
    \/ ProbeThread(Solo)
    \/ CreateThread(Solo)
    \/ CacheWrite(Solo)
    \/ ClearRead(Solo)
    \/ ClearDelete(Solo)
    \/ CreateTemp(Solo)
    \/ WriteTemp(Solo)
    \/ OpenTemp(Solo)
    \/ UploadImage(Solo)
    \/ PostMessage(Solo)
    \/ CreateRun(Solo)
    \/ PollRun(Solo)
    \/ ListMessages(Solo)
    \/ Finish(Solo)

SpecExtract == InitExtract /\ [][NextExtract]_vars

\* ======================================================================
\* Properties
\* ======================================================================
Issued == 1..nextThread

\* In this step handler h returns from getOrCreateThread.
ResolveEnds(h) == pc[h] \in ResolvePCs /\ pc'[h] \notin ResolvePCs

\* ... with (handle'[h], nil)
ResolveSucceeds(h) == ResolveEnds(h) /\ pc[h] \in {"probe", "cacheWrite"}

\* the number of threads the call of h has created
NumCreated(trace) ==
    Cardinality({i \in 1..Len(trace) : trace[i] = Call("Threads.New", "ok")})

\* What C1 says of a resolve that ends in this step: after a lookup that
\* found no entry it has created exactly one thread and cached it; after a
\* lookup that found one and a probe that succeeded it returns the handle
\* found and has created no thread, and, when sameAsFirst, that handle is the
\* one the first creating resolve of the watched user cached.
FirstThenSame(h, sameAsFirst) ==
    /\ ~exists[h] =>
          /\ NumCreated(calls'[h]) = 1
          /\ handle'[h] = thread[h]
          /\ threadCache'[user[h]] = handle'[h]
    /\ exists[h] /\ Has(calls'[h], "Threads.Get", "ok") =>
          /\ handle'[h] = threadID[h]
          /\ NumCreated(calls'[h]) = 0
          /\ remoteVars' = remoteVars
          /\ threadCache' = threadCache
          /\ sameAsFirst /\ user[h] = Watched /\ origin \in ThreadIDs =>
                handle'[h] = origin

\* C1 as stated: every later resolve with a successful probe and no Clear
\* in between returns the handle the first resolve created, whether or not
\* resolves of that user overlap.
C1_AsStated ==
    [][\A h \in Handlers : ResolveSucceeds(h) => FirstThenSame(h, TRUE)]_vars

\* C1 (amended): a resolve that finds no entry creates exactly one thread and
\* caches it; a later resolve that finds an entry and whose probe succeeds
\* returns the handle it found and creates no thread; that handle is the one
\* the first resolve created provided no two resolves of the user overlapped
\* since the user last had no entry.
C1_FirstCreatesLaterReuse ==
    [][\A h \in Handlers : ResolveSucceeds(h) => FirstThenSame(h, ~raced)]_vars

C1_Witness ==
    \E h \in Handlers :
        /\ pc[h] = "done" /\ op[h] = "resolve" /\ user[h] = Watched
        /\ exists[h] /\ Called(h, "Threads.Get", "ok")
        /\ ~raced /\ origin \in ThreadIDs /\ handle[h] = origin

\* C2: in a sequential history a resolve that directly follows a completed
\* Clear of the same user never probes or reuses a handle: it calls
\* Threads.New, and the handle it returns is a newly created thread, not the
\* one the Clear evicted.
C2_ResolveAfterEvictCreates ==
    [][\A h \in Handlers :
          ResolveEnds(h) /\ followsClear[h] /\ conc[h] = {} =>
             /\ ~exists[h]
             /\ ~HasAny(calls'[h], "Threads.Get")
             /\ HasAny(calls'[h], "Threads.New")
             /\ ResolveSucceeds(h) =>
                   /\ NumCreated(calls'[h]) = 1
                   /\ handle'[h] = thread[h]
                   /\ handle'[h] \in Issued
                   /\ handle'[h] # evicted
                   /\ threadCache'[user[h]] = handle'[h]]_vars

C2_Witness ==
    \E h \in Handlers :
        /\ pc[h] = "done" /\ op[h] = "resolve"
        /\ followsClear[h] /\ conc[h] = {}
        /\ evicted # NoThread /\ handle[h] \in Issued /\ handle[h] # evicted

\* C3: when the probe of the cached handle fails and Threads.New succeeds,
\* resolve returns the new handle with no error and the cache maps the user
\* to the new handle, not to the stale one.
C3_StaleHandleReplaced ==
    [][\A h \in Handlers :
          /\ ResolveEnds(h)
          /\ Has(calls'[h], "Threads.Get", "err")
          /\ Has(calls'[h], "Threads.New", "ok")
          => /\ ResolveSucceeds(h)
             /\ ret'[h].err = NoError
             /\ handle'[h] = thread[h]
             /\ handle'[h] # threadID[h]
             /\ threadCache'[user[h]] = handle'[h]]_vars

C3_Witness ==
    \E h \in Handlers :
        /\ pc[h] = "done" /\ op[h] = "resolve"
        /\ Called(h, "Threads.Get", "err") /\ Called(h, "Threads.New", "ok")
        /\ threadID[h] # NoThread /\ handle[h] # threadID[h]
        /\ threadCache[user[h]] = handle[h]

\* C4 as stated: when resolve returns after a failed probe, the stale handle is
\* no longer cached for the user, whether or not the replacement was created.
C4_AsStated ==
    [][\A h \in Handlers :
          ResolveEnds(h) /\ Has(calls'[h], "Threads.Get", "err") =>
             threadCache'[user[h]] # threadID[h]]_vars

\* C4 (amended): a failed probe removes nothing from the cache; the stale
\* handle is overwritten by the replacement when Threads.New succeeds, and
\* when Threads.New fails resolve leaves the cache as it is, the stale handle
\* still cached.
C4_StaleHandleKeptUntilReplaced ==
    [][\A h \in Handlers :
          /\ pc[h] \in {"probe", "create"} /\ pc'[h] # pc[h] =>
                threadCache' = threadCache
          /\ ResolveEnds(h) /\ Has(calls'[h], "Threads.Get", "err") =>
                IF Has(calls'[h], "Threads.New", "ok")
                THEN /\ threadCache'[user[h]] = thread[h]
                     /\ thread[h] # threadID[h]
                ELSE /\ ret'[h].err = <<"failed to create thread">>
                     /\ threadCache' = threadCache]_vars

C4_Witness ==
    \E h \in Handlers :
        /\ pc[h] = "done" /\ op[h] = "resolve"
        /\ Called(h, "Threads.Get", "err") /\ Called(h, "Threads.New", "err")
        /\ threadID[h] # NoThread
        /\ threadCache[user[h]] = threadID[h]

\* C5: when Threads.New fails, getOrCreateThread leaves the thread cache as
\* it was before the call (no step of the call up to there changes it) and
\* the enclosing ExtractEventFromText / ExtractEventFromImage returns that
\* error and no Event, having posted no message, uploaded no file and started
\* no run.
C5_CreateFailureIsFatal ==
    [][\A h \in Handlers :
          /\ pc[h] \in {"cacheRead", "probe", "create"} /\ pc'[h] # pc[h] =>
                threadCache' = threadCache
          /\ pc[h] = "create" /\ Has(calls'[h], "Threads.New", "err") =>
                /\ pc'[h] = "done"
                /\ ret'[h] = [event |-> "nil",
                              err |-> <<"failed to create thread">>]
                /\ handle'[h] = NoThread
                /\ ~tempFile'[h]
                /\ \A name \in {"Files.New", "Messages.New", "Runs.New",
                                "Runs.Get", "Messages.List"} :
                      ~HasAny(calls'[h], name)]_vars

C5_Witness ==
    \E h \in Handlers :
        /\ pc[h] = "done" /\ op[h] = "image"
        /\ ret[h].err = <<"failed to create thread">>
        /\ Called(h, "Threads.Get", "err")
        /\ threadCache[user[h]] = threadID[h] /\ threadID[h] # NoThread

\* C6: under any interleaving of resolve calls every handle returned is one
\* the service issued and the cache holds only issued handles; from the
\* first cache write for a user on (until a Clear) the cache maps the user to
\* the handle of the latest cache write, also when overlapping calls have
\* created duplicates; and a resolve that no Clear overlapped and that
\* returns a handle leaves the user with an entry.
C6_LastWriteWins ==
    /\ [](/\ \A h \in Handlers : handle[h] # NoThread => handle[h] \in Issued
          /\ \A u \in Users :
                threadCache[u] # NoThread => threadCache[u] \in Issued
          /\ lastWrite # NoThread => threadCache[Watched] = lastWrite)
    /\ [][\A h \in Handlers :
             ResolveSucceeds(h) /\ "clear" \notin conc[h] =>
                /\ handle'[h] \in Issued
                /\ threadCache'[user[h]] \in Issued]_vars

C6_Witness ==
    \E g, h \in Handlers :
        /\ g # h /\ raced
        /\ pc[g] = "done" /\ pc[h] = "done"
        /\ user[g] = Watched /\ user[h] = Watched
        /\ Called(g, "Threads.New", "ok") /\ Called(h, "Threads.New", "ok")
        /\ handle[g] # handle[h]
        /\ origin = handle[h]
        /\ threadCache[Watched] = handle[g] /\ lastWrite = handle[g]

\* C7: ClearThreadForUser makes no remote call and changes nothing upstream;
\* it returns nil; when it returns with no resolve for the user overlapping
\* it the cache has no entry for the user; when the user has no entry, and
\* so when it directly follows another Clear, it returns at once with the
\* cache unchanged.
C7_ClearEvictsLocallyOnly ==
    [][\A h \in Handlers :
          pc[h] \in ClearPCs /\ pc'[h] # pc[h] =>
             /\ remoteVars' = remoteVars
             /\ calls'[h] = <<>>
             /\ \A u \in Users \ {user[h]} : threadCache'[u] = threadCache[u]
             /\ pc'[h] = "done" => ret'[h].err = NoError
             /\ pc'[h] = "done" /\ "resolve" \notin conc[h] =>
                   threadCache'[user[h]] = NoThread
             /\ pc[h] = "clearRead" /\ threadCache[user[h]] = NoThread =>
                   pc'[h] = "done" /\ threadCache' = threadCache
             /\ /\ pc[h] = "clearRead" /\ user[h] = Watched
                /\ lastDone = "clear" /\ conc[h] = {}
                => pc'[h] = "done" /\ threadCache' = threadCache]_vars

C7_Witness ==
    \E h \in Handlers :
        /\ pc[h] = "done" /\ op[h] = "clear" /\ exists[h]
        /\ ret[h].err = NoError
        /\ threadCache[user[h]] = NoThread
        /\ threadID[h] \in remoteThreads

\* C8: the cache maps every user to at most one handle, every cached handle
\* is one a successful Threads.New returned, and no two users are mapped to
\* the same handle.
C8_CacheOneToOne ==
    /\ threadCache \in [Users -> ThreadIDs \cup {NoThread}]
    /\ \A u \in Users : threadCache[u] # NoThread => threadCache[u] \in Issued
    /\ \A u, v \in Users :
          u # v /\ threadCache[u] # NoThread =>
             threadCache[u] # threadCache[v]

C8_Witness ==
    \A u \in Users : threadCache[u] \in Issued

\* C9: no step of a getOrCreateThread or ClearThreadForUser call made for one
\* user adds, changes or removes the cache entry of another user.
C9_OtherUsersUntouched ==
    [][\A h \in Handlers :
          pc'[h] # pc[h] =>
             LET u == IF pc[h] = "idle" THEN user'[h] ELSE user[h]
             IN  \A v \in Users \ {u} : threadCache'[v] = threadCache[v]]_vars

C9_Witness ==
    \E h \in Handlers, v \in Users :
        /\ pc[h] = "done" /\ op[h] = "clear" /\ exists[h]
        /\ v # user[h]
        /\ threadCache[user[h]] = NoThread
        /\ threadCache[v] # NoThread

\* The statuses C10 is about.
FailureStatuses == {"failed", "cancelled", "expired", "requires_action"}

\* The error pollForCompletion returns for a status of FailureStatuses.
FailureError(status) ==
    IF status = "requires_action" THEN ErrRequiresAction
    ELSE ErrRunFailed(status)

\* C10: a poll that observes failed, cancelled, expired or requires_action
\* makes pollForCompletion return at once a nil Event and an error that
\* tells which of these statuses it was, with no Messages.List call and no
\* further poll.
C10_FailureStatusEndsPolling ==
    [][\A h \in Handlers :
          \A status \in FailureStatuses :
             pc[h] = "poll" /\ Has(calls'[h], "Runs.Get", status) =>
                /\ pc'[h] = "done"
                /\ ret'[h].event = "nil"
                /\ ret'[h].err = FailureError(status)
                /\ \A other \in FailureStatuses \ {status} :
                      ret'[h].err # FailureError(other)
                /\ pollCount'[h] = pollCount[h] + 1
                /\ ~HasAny(calls'[h], "Messages.List")]_vars

C10_Witness ==
    \E h \in Handlers :
        /\ pc[h] = "done"
        /\ Called(h, "Runs.Get", "expired")
        /\ pollCount[h] > 1
        /\ ret[h] = [event |-> "nil", err |-> ErrRunFailed("expired")]

\* The statuses on which, according to C11, the loop goes round again.
RepollStatuses == {"queued", "in_progress"}

\* C11 as stated: a poll that fetches a status goes round again if and only
\* if the status is queued or in_progress; on completed it goes on to list
\* the messages; on every other status it returns an error and no Event.
C11_AsStated ==
    [][\A h \in Handlers : \A status \in RunStatuses :
          pc[h] = "poll" /\ Has(calls'[h], "Runs.Get", status) =>
             /\ pc'[h] = "poll" <=> status \in RepollStatuses
             /\ status = "completed" => pc'[h] = "listMessages"
             /\ status \notin RepollStatuses \cup {"completed"} =>
                   /\ pc'[h] = "done"
                   /\ ret'[h].event = "nil"
                   /\ ret'[h].err # NoError]_vars

\* A poll has fetched incomplete, a status no later poll will see change,
\* and the loop is about to poll again.
C11_Witness ==
    \E h \in Handlers :
        /\ pc[h] = "poll" /\ pollCount[h] > 0
        /\ Called(h, "Runs.Get", "incomplete")

\* ---------------------------------------------------- polling a live run
\* every variable of the calls made so far
callVars == <<extractFrame, pc, pollCount, tempFile, calls, ret>>

\* The remote calls a first extraction of the given kind has made when its
\* run has been created, followed by polls.
CallsOfRun(kind, polls) ==
    <<Call("Assistants.Get", "ok"), Call("Threads.New", "ok")>>
    \o (IF kind = "image" THEN <<Call("Files.New", "ok")>> ELSE <<>>)
    \o <<Call("Messages.New", "ok"), Call("Runs.New", "ok")>>
    \o polls

\* The state of the client when handler Solo, in the first call made on the
\* client, an extraction of the given kind for user u, stands at position at
\* of pollForCompletion after count turns of the loop.
InRun(u, kind, at, count, polls) ==
    /\ threadCache = [v \in Users |-> IF v = u THEN 1 ELSE NoThread]
    /\ assistantID = ConfiguredAssistant
    /\ remoteThreads = {1}
    /\ nextThread = 1
    /\ pc = [h \in Handlers |-> IF h = Solo THEN at ELSE "idle"]
    /\ op = [h \in Handlers |-> IF h = Solo THEN kind ELSE "none"]
    /\ user = [h \in Handlers |-> IF h = Solo THEN u ELSE NoUser]
    /\ threadID = [h \in Handlers |-> NoThread]
    /\ exists = [h \in Handlers |-> FALSE]
    /\ thread = [h \in Handlers |-> IF h = Solo THEN 1 ELSE NoThread]
    /\ handle = [h \in Handlers |-> IF h = Solo THEN 1 ELSE NoThread]
    /\ pollCount = [h \in Handlers |-> IF h = Solo THEN count ELSE 0]
    /\ tempFile = [h \in Handlers |-> h = Solo /\ kind = "image"]
    /\ calls = [h \in Handlers |->
                   IF h = Solo THEN CallsOfRun(kind, polls) ELSE <<>>]
    /\ ret = [h \in Handlers |-> NoReturn]
    /\ conc = [h \in Handlers |-> {}]
    /\ followsClear = [h \in Handlers |-> FALSE]
    /\ origin = IF u = Watched THEN 1 ELSE NoOrigin
    /\ raced = FALSE
    /\ lastDone = IF u = Watched THEN "resolve" ELSE "none"
    /\ evicted = NoThread
    /\ lastWrite = IF u = Watched THEN 1 ELSE NoThread
    /\ started = 1
    /\ assistants = <<>>
    /\ sent = [h \in Handlers |-> IF h = Solo THEN <<Processing>> ELSE <<>>]
    /\ NoPreferences

\* How the service moves a run on.  Nothing in this program submits tool
\* outputs, so a run that requires action can only expire; a run may be
\* cancelled from outside while it is queued or in progress.
RunSuccessors(status) ==
    CASE status = "queued" ->
            {"in_progress", "failed", "cancelling", "expired"}
      [] status = "in_progress" ->
            {"completed", "failed", "requires_action", "cancelling",
             "expired", "incomplete"}
      [] status = "requires_action" -> {"expired"}
      [] status = "cancelling" -> {"cancelled"}
      [] OTHER -> {}

\* The service moves the run on.
RunAdvances ==
    /\ runStatus # NoRun
    /\ \E next \in RunSuccessors(runStatus) : runStatus' = next
    /\ UNCHANGED <<callVars, messages, now, parseLocals, icsVars, assistants,
                   sent, botVars>>

\* One turn of the loop against the live run: Runs.Get answers with the
\* status the run has.
PollRemote(h) ==
    /\ pc[h] = "poll"
    /\ runStatus # NoRun
    /\ PollStep(h, runStatus)
    /\ UNCHANGED <<extractFrame, downstreamVars>>

\* Runs.New has just returned the run, queued.
InitPoll ==
    /\ \E u \in Users, kind \in ExtractOps : InRun(u, kind, "poll", 0, <<>>)
    /\ runStatus = "queued"
    /\ messages = <<>>
    /\ now = ClockStart
    /\ NoLocals
    /\ NoCalendar

NextPoll ==
    \/ RunAdvances
    \/ PollRemote(Solo)
    \/ ListMessages(Solo)

\* The goroutine keeps running and every remote call is answered.
SpecPoll ==
    /\ InitPoll
    /\ [][NextPoll]_vars
    /\ WF_vars(PollRemote(Solo))
    /\ WF_vars(ListMessages(Solo))

\* the statuses on which pollForCompletion leaves the loop
EndingStatuses == {"completed"} \cup FailureStatuses

EpochYear == 2024

IsLeap(year) ==
    /\ year % 4 = 0
    /\ year % 100 # 0 \/ year % 400 = 0

DaysInYear(year) == IF IsLeap(year) THEN 366 ELSE 365

DaysIn(year, month) ==
    CASE month = 2 -> IF IsLeap(year) THEN 29 ELSE 28
      [] month \in {4, 6, 9, 11} -> 30
      [] OTHER -> 31

RECURSIVE DaysBeforeYear(_)
DaysBeforeYear(year) ==
    IF year <= EpochYear THEN 0
    ELSE DaysBeforeYear(year - 1) + DaysInYear(year - 1)

RECURSIVE DaysBeforeMonth(_, _)
DaysBeforeMonth(year, month) ==
    IF month <= 1 THEN 0
    ELSE DaysBeforeMonth(year, month - 1) + DaysIn(year, month - 1)

\* time.Date(year, month, day, hour, min, sec, 0, loc), loc being off seconds
\* east of UTC.  A day past the end of the month is carried over, as
\* time.Date normalises its arguments.
Date(year, month, day, hour, min, sec, off) ==
    TimeOf((DaysBeforeYear(year) + DaysBeforeMonth(year, month) + day - 1)
              * 86400 + hour * 3600 + min * 60 + sec - off,
           off)

\* t.Add(d), d in seconds
Add(t, d) == [t EXCEPT !.sec = @ + d]

\* t.In(loc), loc being off seconds east of UTC; t.UTC() is In(t, 0)
In(t, off) == [t EXCEPT !.off = off]

\* seconds since the epoch of the wall clock t shows in its location
WallSeconds(t) == t.sec + t.off

Hour(t) == (WallSeconds(t) % 86400) \div 3600
Minute(t) == (WallSeconds(t) % 3600) \div 60
Second(t) == WallSeconds(t) % 60

\* <<year, day of the year counted from 0>> of a day counted from the epoch
RECURSIVE YearAndDay(_, _)
YearAndDay(year, days) ==
    IF days < DaysInYear(year) THEN <<year, days>>
    ELSE YearAndDay(year + 1, days - DaysInYear(year))

\* <<month, day of the month>> of a day of the year counted from 0
RECURSIVE MonthAndDay(_, _, _)
MonthAndDay(year, month, days) ==
    IF days < DaysIn(year, month) THEN <<month, days + 1>>
    ELSE MonthAndDay(year, month + 1, days - DaysIn(year, month))

\* t.Date(): <<year, month, day>> in t's location
DateOf(t) ==
    LET yd == YearAndDay(EpochYear, WallSeconds(t) \div 86400)
        md == MonthAndDay(yd[1], 1, yd[2])
    IN  <<yd[1], md[1], md[2]>>

Year(t) == DateOf(t)[1]
Month(t) == DateOf(t)[2]
Day(t) == DateOf(t)[3]

\* t.Format("20060102T150405Z") and t.Format("20060102"): the digits of the
\* layout, read in t's location; the Z of the layout is a literal.
FormatStamp(t) == <<Year(t), Month(t), Day(t), Hour(t), Minute(t), Second(t)>>
FormatDay(t) == <<Year(t), Month(t), Day(t)>>

\* ======================================================================
\* pollForCompletion, case completed: from the reply to the Event
\* ======================================================================
\* A text is a sequence of pieces: the braces, the keys of the JSON members
\* (with their colon), the string values (quotes left out) and stretches of
\* prose.  The empty text is <<>>.
StartKey == "\"start_time\":"
EndKey == "\"end_time\":"
Keys == {StartKey, EndKey, "\"title\":"}
Prose == {"Sure! Here's the event: ", " Thanks."}

\* The fields a string shows when it has the shape of an RFC 3339 timestamp,
\* <<year, month, day, hour, minute, second, minutes east of UTC>>, and <<>>
\* when it has not that shape.
StampFields(text) ==
    CASE text = "2025-03-10T00:00:00Z" -> <<2025, 3, 10, 0, 0, 0, 0>>
      [] text = "2025-03-10T09:30:15Z" -> <<2025, 3, 10, 9, 30, 15, 0>>
      [] text = "2025-03-10T10:30:00Z" -> <<2025, 3, 10, 10, 30, 0, 0>>
      [] text = "2025-03-10T00:00:01Z" -> <<2025, 3, 10, 0, 0, 1, 0>>
      [] text = "2025-03-11T00:00:00Z" -> <<2025, 3, 11, 0, 0, 0, 0>>
      [] text = "2025-03-10T00:00:00+05:30" -> <<2025, 3, 10, 0, 0, 0, 330>>
      [] text = "2025-06-01T00:00:00Z" -> <<2025, 6, 1, 0, 0, 0, 0>>
      [] text = "2025-06-01T00:00:00+03:00" -> <<2025, 6, 1, 0, 0, 0, 180>>
      [] text = "2024-02-28T23:30:00-08:00" -> <<2024, 2, 28, 23, 30, 0, -480>>
      [] text = "2024-02-29T00:00:00Z" -> <<2024, 2, 29, 0, 0, 0, 0>>
      [] text = "2025-02-28T00:00:00Z" -> <<2025, 2, 28, 0, 0, 0, 0>>
      [] text = "2025-12-31T00:00:00-05:00" -> <<2025, 12, 31, 0, 0, 0, -300>>
      [] text = "2025-12-31T23:59:59Z" -> <<2025, 12, 31, 23, 59, 59, 0>>
      [] text = "2025-02-30T10:00:00Z" -> <<2025, 2, 30, 10, 0, 0, 0>>
      [] text = "2025-13-01T10:00:00Z" -> <<2025, 13, 1, 10, 0, 0, 0>>
      [] text = "2025-03-10T24:00:00Z" -> <<2025, 3, 10, 24, 0, 0, 0>>
      [] OTHER -> <<>>

\* time.Parse(time.RFC3339, text): [ok, time]; the fields must be in range.
ParseRFC3339(text) ==
    LET f == StampFields(text)
        ok == /\ f # <<>>
              /\ f[2] \in 1..12
              /\ f[3] \in 1..DaysIn(f[1], f[2])
              /\ f[4] \in 0..23 /\ f[5] \in 0..59 /\ f[6] \in 0..59
    IN  [ok |-> ok,
         time |-> IF ok
                  THEN Date(f[1], f[2], f[3], f[4], f[5], f[6], f[7] * 60)
                  ELSE ClockStart]

\* the strings the members of a reply may have as values
StartTexts ==
    {"", "tomorrow at noon", "2025-03-10T00:00:00Z", "2025-03-10T09:30:15Z",
     "2025-03-10T00:00:01Z", "2025-03-10T00:00:00+05:30",
     "2025-06-01T00:00:00Z",
     "2025-06-01T00:00:00+03:00", "2024-02-28T23:30:00-08:00",
     "2024-02-29T00:00:00Z", "2025-02-28T00:00:00Z",
     "2025-12-31T00:00:00-05:00", "2025-12-31T23:59:59Z",
     "2025-02-30T10:00:00Z", "2025-13-01T10:00:00Z", "2025-03-10T24:00:00Z"}
EndTexts ==
    {"", "2025-03-10 11:00", "2025-03-10T10:30:00Z", "2025-03-11T00:00:00Z",
     "2025-02-30T10:00:00Z"}
Values == StartTexts \cup EndTexts

\* what time.Now() may read: an afternoon, a midnight, a last half hour of
\* the year
HalfSecond == 500000000
Afternoon == [Date(2025, 6, 15, 14, 20, 5, 7200) EXCEPT !.nsec = HalfSecond]
Nows ==
    {Afternoon, Date(2025, 7, 1, 0, 0, 0, 0),
     Date(2025, 12, 31, 23, 30, 0, -18000)}

\* bytes.IndexByte(text, c) and bytes.LastIndexByte(text, c), counted from 0;
\* -1 when c does not occur
IndexByte(text, c) ==
    LET at == {i \in 1..Len(text) : text[i] = c}
    IN  IF at = {} THEN -1
        ELSE (CHOOSE i \in at : \A j \in at : i <= j) - 1

LastIndexByte(text, c) ==
    LET at == {i \in 1..Len(text) : text[i] = c}
    IN  IF at = {} THEN -1
        ELSE (CHOOSE i \in at : \A j \in at : i >= j) - 1

\* SliceJSON keeping the text whole.
SliceJSON_Whole(text) == text

\* startIdx, endIdx := ...; if startIdx >= 0 && endIdx > startIdx
\* { jsonContent = jsonContent[startIdx : endIdx+1] }
SliceJSON(text) ==
    LET startIdx == IndexByte(text, "{")
        endIdx == LastIndexByte(text, "}")
    IN  IF startIdx >= 0 /\ endIdx > startIdx
        THEN SubSeq(text, startIdx + 1, endIdx + 1)
        ELSE text

\* the value of the last member of the object with this key, "" if none
Member(inner, key) ==
    LET at == {i \in 1..Len(inner) : i % 2 = 1 /\ inner[i] = key}
    IN  IF at = {} THEN ""
        ELSE inner[(CHOOSE i \in at : \A j \in at : i >= j) + 1]

\* Unmarshal taking every text for an object with no members.
Unmarshal_Lenient(text) == [ok |-> TRUE, StartTime |-> "", EndTime |-> ""]

\* json.Unmarshal(text, &eventData): [ok, StartTime, EndTime].  The text is
\* accepted when it is one object, a pair of braces around members that are
\* each a known key and a string value.
Unmarshal(text) ==
    LET n == Len(text)
        inner == SubSeq(text, 2, n - 1)
        ok == /\ n >= 2 /\ n % 2 = 0
              /\ text[1] = "{" /\ text[n] = "}"
              /\ \A i \in 1..(n - 2) :
                    IF i % 2 = 1 THEN inner[i] \in Keys
                    ELSE inner[i] \in Values
    IN  [ok |-> ok,
         StartTime |-> IF ok THEN Member(inner, StartKey) ELSE "",
         EndTime |-> IF ok THEN Member(inner, EndKey) ELSE ""]

Midnight(t) == Hour(t) = 0 /\ Minute(t) = 0 /\ Second(t) = 0

\* RepairStart falling back to the zero time.
RepairStart_Zero(text, clock) ==
    IF text = "" THEN ClockStart
    ELSE IF ParseRFC3339(text).ok THEN ParseRFC3339(text).time
         ELSE ClockStart

\* startTime: now when eventData.StartTime is empty or does not parse
RepairStart(text, clock) ==
    IF text = "" THEN clock
    ELSE IF ParseRFC3339(text).ok THEN ParseRFC3339(text).time
         ELSE clock

\* DefaultEnd adding the hour whatever the start.
DefaultEnd_PlusHour(startTime) == Add(startTime, 3600)

\* endTime = startTime.Add(1 * time.Hour), and for a start at midnight
\* time.Date(Year, Month, Day+1, 0, 0, 0, 0, startTime.Location())
DefaultEnd(startTime) ==
    IF Midnight(startTime)
    THEN Date(Year(startTime), Month(startTime), Day(startTime) + 1, 0, 0, 0,
              startTime.off)
    ELSE Add(startTime, 3600)

\* RepairEnd taking the default also for an end that is not after the start.
RepairEnd_Ordered(text, startTime) ==
    IF text = "" THEN DefaultEnd(startTime)
    ELSE IF ParseRFC3339(text).ok /\ ParseRFC3339(text).time.sec > startTime.sec
         THEN ParseRFC3339(text).time
         ELSE DefaultEnd(startTime)

\* endTime: the default when eventData.EndTime is empty or does not parse
RepairEnd(text, startTime) ==
    IF text = "" THEN DefaultEnd(startTime)
    ELSE IF ParseRFC3339(text).ok THEN ParseRFC3339(text).time
         ELSE DefaultEnd(startTime)

\* A content block of a message: a text block carries a text, any other
\* block none.
Block(type, text) == [type |-> type, text |-> text]
Message(role, content) == [role |-> role, content |-> content]

\* Messages.List(ctx, threadID, {Order: order, Limit: limit}) on a thread
\* holding these messages, oldest first: messages.Data
MessagesList(stored, order, limit) ==
    LET n == Len(stored)
        listed == IF order = "desc"
                  THEN [i \in 1..n |-> stored[n + 1 - i]]
                  ELSE stored
    IN  SubSeq(listed, 1, IF limit < n THEN limit ELSE n)

\* FirstText taking the last text block.
FirstText_Last(content) ==
    LET at == {i \in 1..Len(content) : content[i].type = "text"}
    IN  IF at = {} THEN <<>>
        ELSE content[CHOOSE i \in at : \A j \in at : i >= j].text

\* for _, content := range assistantMessage.Content
\* { if content.Type == text { jsonContent = content.Text.Value; break } }
FirstText(content) ==
    LET at == {i \in 1..Len(content) : content[i].type = "text"}
    IN  IF at = {} THEN <<>>
        ELSE content[CHOOSE i \in at : \A j \in at : i <= j].text

\* Failed handing out an Event next to the error.
Failed_WithEvent(text, err) ==
    [jsonContent |-> text, event |-> "event",
     value |-> [StartTime |-> Afternoon, EndTime |-> Add(Afternoon, 3600)],
     err |-> err]

\* What case completed makes of messages.Data with the clock at clock:
\* [jsonContent, event (the *Event: "nil" or "event"), value, err]
\* return nil, fmt.Errorf(...)
Failed(text, err) ==
    [jsonContent |-> text, event |-> "nil", value |-> NoEvent, err |-> err]

ExtractFrom(data, clock) ==
    IF Len(data) = 0 THEN Failed(<<>>, <<"no messages found">>)
    ELSE IF data[1].role # "assistant"
    THEN Failed(<<>>, <<"unexpected message role: ", data[1].role>>)
    ELSE IF FirstText(data[1].content) = <<>>
    THEN Failed(<<>>, <<"no text content found in assistant message">>)
    ELSE
      LET sliced == SliceJSON(FirstText(data[1].content))
          eventData == Unmarshal(sliced)
          startTime == RepairStart(eventData.StartTime, clock)
          endTime == RepairEnd(eventData.EndTime, startTime)
      IN  IF ~eventData.ok
          THEN Failed(sliced, <<"failed to parse event data">>)
          ELSE [jsonContent |-> sliced, event |-> "event",
                value |-> [StartTime |-> startTime, EndTime |-> endTime],
                err |-> NoError]

\* case completed, whole: Messages.List(order desc, limit 1), then the
\* checks, the slicing, the parsing and the repair of the times.
ExtractEvent(h) ==
    /\ pc[h] = "listMessages"
    /\ \E ok \in BOOLEAN :
          LET out == IF ok
                     THEN ExtractFrom(MessagesList(messages, "desc", 1), now)
                     ELSE Failed(<<>>, <<"failed to list messages">>)
          IN  /\ calls' = [calls EXCEPT
                              ![h] = Append(@, Call("Messages.List",
                                                    OkErr(ok)))]
              /\ jsonContent' = [jsonContent EXCEPT ![h] = out.jsonContent]
              /\ event' = [event EXCEPT ![h] = out.value]
              /\ Return(h, out.event, out.err)
    /\ UNCHANGED <<extractFrame, pollCount, runStatus, messages, now, icsVars,
                   assistants, sent, botVars>>

\* ------------------------------------------------ the replies considered
MaxLen == 4
MaxBlocks == 2

\* the sequences over S of length at most n
SeqsUpTo(S, n) == UNION {[1..k -> S] : k \in 0..n}

Roles == {"assistant", "user"}

\* the request ExtractEventFromText posts
Request == Message("user", <<Block("text", <<"Today is ...">>)>>)

TimedText == <<"{", StartKey, "2025-03-10T09:30:15Z", "}">>
Blocks ==
    {Block("image_file", <<>>), Block("text", <<>>),
     Block("text", TimedText), Block("text", <<"{", "}">>),
     Block("text", <<" Thanks.">>)}

\* threads that differ in the messages they hold and in the blocks of the
\* newest message
MessageThreads ==
    {<<>>} \cup
    {older \o <<Message(role, content)>> :
        older \in {<<>>, <<Request>>,
                   <<Message("assistant", <<Block("text", TimedText)>>)>>},
        role \in Roles, content \in SeqsUpTo(Blocks, MaxBlocks)}

\* threads whose newest message is a reply of one text block, the texts
\* differing in where braces, members and prose stand
SliceThreads ==
    {<<Request, Message("assistant", <<Block("text", text)>>)>> :
        text \in SeqsUpTo({"{", "}", StartKey, "", " Thanks."}, MaxLen)}

\* threads whose newest message is a reply of one object with a start_time
\* and an end_time
TimesReply(start, end) ==
    <<Request,
      Message("assistant",
              <<Block("text", <<"{", StartKey, start, EndKey, end, "}">>)>>)>>

TimeThreads == {TimesReply(start, end) : start \in StartTexts, end \in EndTexts}

\* Handler Solo has seen its run completed by the first poll; the thread
\* holds one of the threads considered.
InitParse ==
    /\ \E u \in Users, kind \in ExtractOps :
          InRun(u, kind, "listMessages", 1, <<Call("Runs.Get", "completed")>>)
    /\ runStatus = "completed"
    /\ messages \in MessageThreads \cup SliceThreads \cup TimeThreads
    /\ now \in Nows
    /\ NoLocals
    /\ NoCalendar

NextParse == ExtractEvent(Solo)

SpecParse == InitParse /\ [][NextParse]_vars

\* ------------------------------------- whole extractions, reply included
\* what the thread may hold when it is listed
WholeThreads ==
    {<<>>, <<Request>>,
     <<Request, Message("assistant", <<Block("image_file", <<>>)>>)>>,
     <<Request, Message("assistant", <<Block("text", <<"{", " Thanks.">>)>>)>>,
     <<Request, Message("assistant", <<Block("text", TimedText)>>)>>}

InitWhole ==
    /\ \E configured \in {NoAssistant, ConfiguredAssistant} :
          FreshClient(configured)
    /\ assistants \in Listings
    /\ runStatus = NoRun
    /\ messages \in WholeThreads
    /\ now = Afternoon
    /\ NoLocals
    /\ NoCalendar

\* ExtractEventFromText and ExtractEventFromImage from the call to the
\* return, one call after the other.
NextWhole ==
    \/ \E u \in Users, kind \in ExtractOps : StartExtract(Solo, u, kind)
    \/ InitAssistantGet(Solo)
    \/ InitAssistantList(Solo)
    \/ CacheRead(Solo)
    \/ ProbeThread(Solo)
    \/ CreateThread(Solo)
    \/ CacheWrite(Solo)
    \/ CreateTemp(Solo)
    \/ WriteTemp(Solo)
    \/ OpenTemp(Solo)
    \/ UploadImage(Solo)
    \/ PostMessage(Solo)
    \/ CreateRun(Solo)
    \/ PollRun(Solo)
    \/ ExtractEvent(Solo)
    \/ Finish(Solo)

SpecWhole == InitWhole /\ [][NextWhole]_vars

\* ======================================================================
\* Properties of the reply's way to the Event
\* ======================================================================
\* the newest message of the thread
Newest == messages[Len(messages)]

\* the call of handler h has listed the messages and got them
Listed(h) == pc[h] = "done" /\ Called(h, "Messages.List", "ok")

NumListings(h) ==
    Cardinality({i \in 1..Len(calls[h]) : calls[h][i].op = "Messages.List"})

HasNonEmptyText(message) ==
    \E i \in 1..Len(message.content) :
        message.content[i].type = "text" /\ message.content[i].text # <<>>

\* the text of the text block no text block precedes, <<>> if there is none
FirstTextValue(message) ==
    LET IsFirst(i) ==
            /\ message.content[i].type = "text"
            /\ \A j \in 1..(i - 1) : message.content[j].type # "text"
    IN  IF \E i \in 1..Len(message.content) : IsFirst(i)
        THEN message.content[CHOOSE i \in 1..Len(message.content) :
                                 IsFirst(i)].text
        ELSE <<>>

\* the call of handler h has reached the parsing of a reply
Parsing(h) ==
    /\ Listed(h) /\ messages # <<>>
    /\ Newest.role = "assistant" /\ FirstTextValue(Newest) # <<>>

Error(h, err) == ret[h] = [event |-> "nil", err |-> err] /\ event[h] = NoEvent

\* C13: on completed the messages are listed once, and what happens depends
\* on the newest message only: no message, a newest message not from the
\* assistant, or one with no non-empty text block each give an error and no
\* Event; otherwise the raw string is the text of the first text block of
\* the newest message (which is refused like no text when it is empty), and
\* what is parsed is cut from that string.
C13_NewestMessageFirstText ==
    \A h \in Handlers :
        Listed(h) =>
           /\ NumListings(h) = 1
           /\ messages = <<>> => Error(h, <<"no messages found">>)
           /\ messages # <<>> /\ Newest.role # "assistant" =>
                 Error(h, <<"unexpected message role: ", Newest.role>>)
           /\ /\ messages # <<>> /\ Newest.role = "assistant"
              /\ ~HasNonEmptyText(Newest)
              => Error(h, <<"no text content found in assistant message">>)
           /\ /\ messages # <<>> /\ Newest.role = "assistant"
              /\ HasNonEmptyText(Newest)
              => IF FirstTextValue(Newest) = <<>>
                 THEN /\ jsonContent[h] = <<>>
                      /\ Error(h, <<"no text content found in assistant message">>)
                 ELSE /\ jsonContent[h] = SliceJSON(FirstTextValue(Newest))
                      /\ ret[h].err \in {NoError, <<"failed to parse event data">>}

C13_Witness ==
    /\ Listed(Solo) /\ Len(messages) = 2
    /\ messages[1].role = "assistant"
    /\ Newest.role = "assistant" /\ Len(Newest.content) = 2
    /\ Newest.content[1].type = "image_file"
    /\ Newest.content[2].text = <<"{", "}">>
    /\ jsonContent[Solo] = <<"{", "}">>
    /\ ret[Solo].event = "event"

\* the text block of a reply of one text block
ReplyText == Newest.content[1].text

\* text is cut from raw as C14 says: from the first { to the last }, both
\* included, when there is a { and the last } stands after it; raw itself
\* in every other case.
CutAsStated(raw, text) ==
    LET Opens(i) == raw[i] = "{" /\ \A k \in 1..(i - 1) : raw[k] # "{"
        Closes(j) == raw[j] = "}" /\ \A k \in (j + 1)..Len(raw) : raw[k] # "}"
    IN  IF \E i, j \in 1..Len(raw) : Opens(i) /\ Closes(j) /\ i < j
        THEN \E i, j \in 1..Len(raw) :
                /\ Opens(i) /\ Closes(j) /\ i < j
                /\ Len(text) = j - i + 1
                /\ \A k \in 1..Len(text) : text[k] = raw[i + k - 1]
        ELSE text = raw

\* C14: the string handed to json.Unmarshal is the raw text from its first {
\* to its last }, both included, when a { exists and the last } lies after
\* it, and the raw text unchanged in every other case.
C14_SliceFirstBraceToLast ==
    \A h \in Handlers :
        Parsing(h) /\ messages \in SliceThreads =>
           CutAsStated(ReplyText, jsonContent[h])

C14_Witness ==
    /\ Parsing(Solo)
    /\ ReplyText = <<" Thanks.", "{", "}", " Thanks.">>
    /\ jsonContent[Solo] = <<"{", "}">>
    /\ ret[Solo].event = "event"

\* the reply in which no JSON object can be read
Unparsable == <<Request, Message("assistant", <<Block("text", <<"{", " Thanks.">>)>>)>>

\* the call of handler h is an extraction that has returned
Extracted(h) == pc[h] = "done" /\ op[h] \in ExtractOps

\* C15: every return of an extraction yields either an Event and a nil error
\* or a nil Event and a non-nil error, never both and never neither; a reply
\* that fails to parse as JSON returns the parse error with no Event, and no
\* start or end time has been made up for it.
C15_EventXorError ==
    \A h \in Handlers :
        Extracted(h) =>
           /\ \/ ret[h].event = "event" /\ ret[h].err = NoError
              \/ /\ ret[h].event = "nil" /\ ret[h].err # NoError
                 /\ event[h] = NoEvent
           /\ Listed(h) /\ messages = Unparsable =>
                 /\ ret[h].event = "nil"
                 /\ ret[h].err = <<"failed to parse event data">>
                 /\ jsonContent[h] = <<"{", " Thanks.">>
                 /\ event[h] = NoEvent

C15_Witness ==
    /\ Extracted(Solo) /\ Listed(Solo)
    /\ messages = Unparsable
    /\ ret[Solo].err = <<"failed to parse event data">>
    /\ Called(Solo, "Files.New", "ok")

\* the start_time and end_time strings of a reply of TimeThreads
StartString == ReplyText[3]
EndString == ReplyText[5]

\* what a string says as an RFC 3339 timestamp, read off the string itself:
\* <<date and time of day as written, seconds east of UTC>>; <<>> for a
\* string that is no valid timestamp
Written(text) ==
    CASE text = "2025-03-10T00:00:00Z" -> <<<<2025, 3, 10, 0, 0, 0>>, 0>>
      [] text = "2025-03-10T09:30:15Z" -> <<<<2025, 3, 10, 9, 30, 15>>, 0>>
      [] text = "2025-03-10T10:30:00Z" -> <<<<2025, 3, 10, 10, 30, 0>>, 0>>
      [] text = "2025-03-10T00:00:01Z" -> <<<<2025, 3, 10, 0, 0, 1>>, 0>>
      [] text = "2025-03-11T00:00:00Z" -> <<<<2025, 3, 11, 0, 0, 0>>, 0>>
      [] text = "2025-03-10T00:00:00+05:30" -> <<<<2025, 3, 10, 0, 0, 0>>, 19800>>
      [] text = "2025-06-01T00:00:00Z" -> <<<<2025, 6, 1, 0, 0, 0>>, 0>>
      [] text = "2025-06-01T00:00:00+03:00" -> <<<<2025, 6, 1, 0, 0, 0>>, 10800>>
      [] text = "2024-02-28T23:30:00-08:00" -> <<<<2024, 2, 28, 23, 30, 0>>, -28800>>
      [] text = "2024-02-29T00:00:00Z" -> <<<<2024, 2, 29, 0, 0, 0>>, 0>>
      [] text = "2025-02-28T00:00:00Z" -> <<<<2025, 2, 28, 0, 0, 0>>, 0>>
      [] text = "2025-12-31T00:00:00-05:00" -> <<<<2025, 12, 31, 0, 0, 0>>, -18000>>
      [] text = "2025-12-31T23:59:59Z" -> <<<<2025, 12, 31, 23, 59, 59>>, 0>>
      [] OTHER -> <<>>

\* the time t shows what the string says, in the string's own offset
Shows(t, text) ==
    /\ Written(text) # <<>>
    /\ FormatStamp(t) = Written(text)[1]
    /\ t.off = Written(text)[2]

\* the call of handler h has parsed a reply of TimeThreads
Timed(h) == Parsing(h) /\ messages \in TimeThreads

\* C16: once the JSON has parsed, the Event's startTime is the time the
\* start_time string says when the string is a valid RFC 3339 timestamp, and
\* the instant time.Now() gave when the string is empty or no valid
\* timestamp; an Event is returned with a nil error in both cases.
C16_StartParsedOrNow ==
    \A h \in Handlers :
        Timed(h) =>
           /\ ret[h].event = "event" /\ ret[h].err = NoError
           /\ IF Written(StartString) # <<>>
              THEN Shows(event[h].StartTime, StartString)
              ELSE event[h].StartTime = now

C16_Witness ==
    /\ Timed(Solo)
    /\ StartString = "2025-02-30T10:00:00Z"
    /\ now # Afternoon
    /\ event[Solo].StartTime = now
    /\ ret[Solo].err = NoError

\* the day after <<year, month, day>> in the calendar
DayAfter(ymd) ==
    LET y == ymd[1]
        m == ymd[2]
        d == ymd[3]
        leap == (y % 4 = 0 /\ y % 100 # 0) \/ y % 400 = 0
        last == CASE m \in {4, 6, 9, 11} -> 30
                  [] m = 2 -> IF leap THEN 29 ELSE 28
                  [] OTHER -> 31
    IN  IF d < last THEN <<y, m, d + 1>>
        ELSE IF m < 12 THEN <<y, m + 1, 1>>
        ELSE <<y + 1, 1, 1>>

\* t is 00:00:00 of the calendar day after the date of start, in the
\* location of start
MidnightAfter(t, start) ==
    /\ FormatStamp(t) = DayAfter(FormatDay(start)) \o <<0, 0, 0>>
    /\ t.off = start.off

AtMidnight(t) == FormatStamp(t) = FormatDay(t) \o <<0, 0, 0>>

\* C17: when end_time is empty or no valid RFC 3339 timestamp, the Event's
\* endTime is startTime plus one hour if startTime, repaired or not, has a
\* non-zero hour, minute or second, and 00:00:00 of the calendar day after
\* startTime's date if it has none, the month and the year rolling over;
\* a start of 2025-03-10T00:00:00Z gives an end of 2025-03-11T00:00:00Z.
C17_EndDefault ==
    \A h \in Handlers :
        Timed(h) /\ Written(EndString) = <<>> =>
           LET start == event[h].StartTime
               end == event[h].EndTime
           IN  /\ IF AtMidnight(start)
                  THEN MidnightAfter(end, start)
                  ELSE /\ end.sec = start.sec + 3600
                       /\ end.off = start.off
                       /\ end.nsec = start.nsec
               /\ StartString = "2025-03-10T00:00:00Z" =>
                     /\ FormatStamp(end) = <<2025, 3, 11, 0, 0, 0>>
                     /\ end.off = 0

C17_Witness ==
    /\ Timed(Solo)
    /\ StartString = "2025-12-31T00:00:00-05:00"
    /\ EndString = "2025-02-30T10:00:00Z"
    /\ FormatStamp(event[Solo].EndTime) = <<2026, 1, 1, 0, 0, 0>>
    /\ event[Solo].EndTime.off = -18000

\* ======================================================================
\* GenerateICS
\* ======================================================================
\* fmt.Sprintf("Etc/GMT%s%d", sign, hours)
EtcName(sign, hours) == "Etc/GMT" \o sign \o ToString(hours)

\* The zones Etc/GMT-14 .. Etc/GMT+12 of the zone database, as [sign, hours];
\* Etc/GMT-3 is three hours east of UTC.
EtcZones ==
    {z \in [sign : {"+", "-"}, hours : 0..14] : z.sign = "+" => z.hours <= 12}

EtcOffsets(name) ==
    {IF z.sign = "-" THEN 3600 * z.hours ELSE -(3600 * z.hours) :
        z \in {y \in EtcZones : EtcName(y.sign, y.hours) = name}}

\* The offsets, in seconds east of UTC, that the zone of this name has in
\* the course of a year; no offset for a name the zone database lacks.
\* LoadLocation("") is UTC.
ZoneOffsets(name) ==
    CASE name = "UTC" -> {0}
      [] name = "" -> {0}
      [] name = "Europe/Moscow" -> {10800}
      [] name = "Etc/GMT+8" -> {-28800}
      [] name = "Asia/Kolkata" -> {19800}
      [] name = "Asia/Kathmandu" -> {20700}
      [] name = "America/New_York" -> {-18000, -14400}
      [] name = "America/St_Johns" -> {-12600, -9000}
      [] name = "Europe/London" -> {0, 3600}
      [] name \in {"GMT", "GMT+0", "GMT-0", "Etc/UTC"} -> {0}
      [] OTHER -> EtcOffsets(name)

\* the timezone strings a user's preferences may hold
Timezones ==
    {"UTC", "", "Europe/Moscow", "Etc/GMT+8", "Asia/Kolkata",
     "Asia/Kathmandu", "America/New_York", "America/St_Johns",
     "Mars/Phobos", "GMT+3", "+03:00"}

\* time.LoadLocation(name): [ok, offsets of the location]
LoadLocation(name) ==
    [ok |-> ZoneOffsets(name) # {}, offsets |-> ZoneOffsets(name)]

\* Located keeping the name it was given.
Located_KeepName(name) ==
    IF LoadLocation(name).ok
    THEN [timezone |-> name, offsets |-> LoadLocation(name).offsets]
    ELSE [timezone |-> name, offsets |-> {0}]

\* loc, err := time.LoadLocation(timezone)
\* if err != nil { timezone = "UTC"; loc = time.UTC }
Located(name) ==
    IF LoadLocation(name).ok
    THEN [timezone |-> name, offsets |-> LoadLocation(name).offsets]
    ELSE [timezone |-> "UTC", offsets |-> {0}]

\* a / b of Go's int, b positive: the quotient is cut towards zero
Quo(a, b) == IF a >= 0 THEN a \div b ELSE -((-a) \div b)

\* One property line of the document, NAME;PARAM:VALUE or NAME:VALUE.  The
\* value is kept as the tuple of its parts.
Line(name, param, value) == [name |-> name, param |-> param, value |-> value]

\* SetAt writing the time as its own location shows it.
SetAt_Local(name, t) == Line(name, "", FormatStamp(t))

\* e.SetStartAt(t), e.SetEndAt(t), e.SetCreatedTime(t), e.SetDtStampTime(t)
\* and e.SetModifiedAt(t) of golang-ical: the property holds t.UTC() in the
\* layout 20060102T150405Z.
SetAt(name, t) == Line(name, "", FormatStamp(In(t, 0)))

\* strings.Replace(content, before, after, -1), before and after each a
\* whole line
Replace(content, before, after) ==
    [i \in DOMAIN content |->
        IF /\ content[i].name = before.name
           /\ content[i].param = before.param
           /\ content[i].value = before.value
        THEN after
        ELSE content[i]]

\* Method publishing the calendar instead of requesting.
Method_Publish == Line("METHOD", "", <<"PUBLISH">>)

\* cal.SetMethod(ics.MethodRequest)
Method == Line("METHOD", "", <<"REQUEST">>)

\* The lines GenerateICS writes for the event ev, the display timezone zone
\* and the current offset seconds of its location, the clock reading clock:
\* the calendar as golang-ical serializes it (the properties in the order
\* they were set; SUMMARY, DESCRIPTION and LOCATION, which the Event of this
\* model does not carry, are left out), then the rewriting of the all-day
\* properties.
Document(ev, zone, seconds, clock) ==
    LET offsetHours == Quo(seconds, 3600)
        adjustedStartTime == Add(ev.StartTime, (-offsetHours) * 3600)
        adjustedEndTime == Add(ev.EndTime, (-offsetHours) * 3600)
        serialized == <<Line("BEGIN", "", <<"VCALENDAR">>),
                        Line("VERSION", "", <<"2.0">>),
                        Line("PRODID", "", <<"-//Calendar Assistant//EN">>),
                        Method,
                        Line("BEGIN", "", <<"VEVENT">>),
                        Line("UID", "", <<clock.sec>>),
                        SetAt("CREATED", clock),
                        SetAt("DTSTAMP", clock),
                        SetAt("LAST-MODIFIED", clock),
                        SetAt("DTSTART", adjustedStartTime),
                        SetAt("DTEND", adjustedEndTime),
                        Line("X-DISPLAY-TIMEZONE", "", <<zone>>),
                        Line("END", "", <<"VEVENT">>),
                        Line("END", "", <<"VCALENDAR">>)>>
        startDone == Replace(serialized,
                             Line("DTSTART", "", FormatStamp(adjustedStartTime)),
                             Line("DTSTART", "VALUE=DATE",
                                  FormatDay(adjustedStartTime)))
        endDone == Replace(startDone,
                           Line("DTEND", "", FormatStamp(adjustedEndTime)),
                           Line("DTEND", "VALUE=DATE",
                                FormatDay(adjustedEndTime)))
    IN  IF Midnight(ev.StartTime)
        THEN IF Midnight(ev.EndTime) THEN endDone ELSE startDone
        ELSE serialized

\* calendar.GenerateICS(event, prefs.Timezone), called by the handler with
\* the Event its extraction returned.
GenerateICS(h) ==
    /\ pc[h] = "done"
    /\ op[h] \in ExtractOps
    /\ ret[h].event = "event"
    /\ icsContent[h] = <<>>
    /\ \E seconds \in Located(timezone).offsets :
          /\ offset' = seconds
          /\ icsContent' =
                [icsContent EXCEPT
                    ![h] = Document(event[h], Located(timezone).timezone,
                                    seconds, now)]
    /\ UNCHANGED <<threadCache, assistantID, remoteVars, extractFrame, pc,
                   pollCount, tempFile, calls, ret, historyVars, runStatus,
                   messages, now, parseLocals, timezone, assistants, sent,
                   botVars>>

\* Handler Solo has seen its run completed; the reply holds a start and an
\* end, and the user has some timezone set.
InitICS ==
    /\ \E u \in Users, kind \in ExtractOps :
          InRun(u, kind, "listMessages", 1, <<Call("Runs.Get", "completed")>>)
    /\ runStatus = "completed"
    /\ messages \in TimeThreads
    /\ now = Afternoon
    /\ NoLocals
    /\ timezone \in Timezones
    /\ offset = 0
    /\ icsContent = [h \in Handlers |-> <<>>]

NextICS == ExtractEvent(Solo) \/ GenerateICS(Solo)

SpecICS == InitICS /\ [][NextICS]_vars

\* ======================================================================
\* Properties of the calendar file
\* ======================================================================
\* GenerateICS has been called for the Event handler h got
Generated(h) ==
    pc[h] = "done" /\ ret[h].event = "event" /\ icsContent[h] # <<>>

\* the lines of handler h's document with this property name
Props(h, name) ==
    {icsContent[h][i] : i \in {j \in DOMAIN icsContent[h] :
                                   icsContent[h][j].name = name}}

\* the line with this name, for a name the document has once
Prop(h, name) == CHOOSE line \in Props(h, name) : TRUE

\* names no zone database resolves
Unresolvable == {"Mars/Phobos", "GMT+3", "+03:00"}

\* the instant a time denotes, as the UTC date and time of day
Instant(t) == FormatStamp([sec |-> t.sec, off |-> 0, nsec |-> 0])
InstantDay(t) == FormatDay([sec |-> t.sec, off |-> 0, nsec |-> 0])

\* C18: a timezone string that cannot be resolved makes GenerateICS produce
\* the document it produces for "UTC" and the same event: the start and the
\* end are the event's own instants, unshifted, and X-DISPLAY-TIMEZONE is
\* UTC; GenerateICS has no error to return for the timezone.
C18_UnresolvableAsUTC ==
    \A h \in Handlers :
        Generated(h) /\ timezone \in Unresolvable =>
           /\ offset = 0
           /\ icsContent[h] = Document(event[h], "UTC", 0, now)
           /\ Cardinality(Props(h, "DTSTART")) = 1
           /\ Prop(h, "DTSTART").value \in {Instant(event[h].StartTime),
                                            InstantDay(event[h].StartTime)}
           /\ Cardinality(Props(h, "DTEND")) = 1
           /\ Prop(h, "DTEND").value \in {Instant(event[h].EndTime),
                                          InstantDay(event[h].EndTime)}
           /\ Cardinality(Props(h, "X-DISPLAY-TIMEZONE")) = 1
           /\ Prop(h, "X-DISPLAY-TIMEZONE").value = <<"UTC">>

C18_Witness ==
    /\ Generated(Solo)
    /\ timezone = "GMT+3"
    /\ StartString = "2025-03-10T09:30:15Z"
    /\ Prop(Solo, "DTSTART").value = <<2025, 3, 10, 9, 30, 15>>
    /\ Prop(Solo, "X-DISPLAY-TIMEZONE").value = <<"UTC">>

\* the instant a DTSTART or DTEND line in timestamp form holds
Encoded(line) ==
    LET v == line.value
    IN  Date(v[1], v[2], v[3], v[4], v[5], v[6], 0)

\* C19 as stated: for a resolvable timezone the encoded start and end are
\* the original start and end minus the timezone's current UTC offset, so
\* that adding the offset again gives the original times, whatever the sign
\* of the offset and whether or not it is a whole number of hours.  (Lines
\* rewritten to the date-only form are left aside.)
C19_AsStated ==
    \A h \in Handlers :
        Generated(h) /\ timezone \notin Unresolvable =>
           /\ Prop(h, "DTSTART").param = "" =>
                 Encoded(Prop(h, "DTSTART")).sec + offset
                    = event[h].StartTime.sec
           /\ Prop(h, "DTEND").param = "" =>
                 Encoded(Prop(h, "DTEND")).sec + offset = event[h].EndTime.sec

\* 09:30:15 UTC in Asia/Kolkata (+05:30) is encoded as 04:30:15 UTC, which
\* a calendar in that zone shows as 10:00:15
C19_Witness ==
    /\ Generated(Solo)
    /\ timezone = "Asia/Kolkata" /\ offset = 19800
    /\ StartString = "2025-03-10T09:30:15Z"
    /\ Prop(Solo, "DTSTART") = Line("DTSTART", "", <<2025, 3, 10, 4, 30, 15>>)

\* C20 as stated: whenever the original startTime has hour, minute and
\* second zero, DTSTART is in the date-only form and no DTSTART in timestamp
\* form remains, for every timezone and every UTC offset the startTime
\* carries; 2025-06-01T00:00:00Z to 2025-06-02T00:00:00Z in UTC gives
\* 20250601 and 20250602.
C20_AsStated ==
    \A h \in Handlers :
        Generated(h) /\ AtMidnight(event[h].StartTime) =>
           /\ \A line \in Props(h, "DTSTART") :
                 line.param = "VALUE=DATE" /\ Len(line.value) = 3
           /\ Props(h, "DTSTART") # {}
           /\ StartString = "2025-06-01T00:00:00Z" /\ EndString = ""
              /\ timezone = "UTC" =>
                 /\ Prop(h, "DTSTART")
                       = Line("DTSTART", "VALUE=DATE", <<2025, 6, 1>>)
                 /\ Prop(h, "DTEND")
                       = Line("DTEND", "VALUE=DATE", <<2025, 6, 2>>)

\* midnight of 2025-06-01 at +03:00 with the timezone UTC: DTSTART stays
\* the timestamp 20250531T210000Z
C20_Witness ==
    /\ Generated(Solo)
    /\ timezone = "UTC"
    /\ StartString = "2025-06-01T00:00:00+03:00"
    /\ Prop(Solo, "DTSTART") = Line("DTSTART", "", <<2025, 5, 31, 21, 0, 0>>)

\* C21 as stated: DTEND is in the date-only form exactly when the original
\* startTime and the original endTime both have hour, minute and second
\* zero; an endTime at midnight after a startTime off midnight keeps the
\* timestamp form.
C21_AsStated ==
    \A h \in Handlers :
        Generated(h) =>
           /\ Cardinality(Props(h, "DTEND")) = 1
           /\ Prop(h, "DTEND").param = "VALUE=DATE"
                 <=> /\ AtMidnight(event[h].StartTime)
                     /\ AtMidnight(event[h].EndTime)

\* midnight of 2025-12-31 at -05:00 with the end defaulted to the next
\* midnight at -05:00: DTEND stays the timestamp 20260101T050000Z
C21_Witness ==
    /\ Generated(Solo)
    /\ timezone = "UTC"
    /\ StartString = "2025-12-31T00:00:00-05:00"
    /\ EndString = ""
    /\ AtMidnight(event[Solo].EndTime)
    /\ Prop(Solo, "DTEND") = Line("DTEND", "", <<2026, 1, 1, 5, 0, 0>>)

\* the whole hours in an offset of so many seconds, the part of an hour
\* dropped on either side of zero
WholeHours(seconds) ==
    CHOOSE k \in -24..24 :
        IF seconds >= 0
        THEN k * 3600 <= seconds /\ seconds < (k + 1) * 3600
        ELSE k * 3600 >= seconds /\ seconds > (k - 1) * 3600

\* the line holds, as a UTC timestamp, the instant t moved back by the
\* whole hours of the offset, the fraction of a second dropped
Holds(line, t) ==
    /\ line.param = ""
    /\ Len(line.value) = 6
    /\ Encoded(line).sec = t.sec - WholeHours(offset) * 3600
    /\ Encoded(line).nsec = 0

\* C22: for an event that is not all-day, reading the DTSTART and DTEND of
\* the document as UTC timestamps gives the original startTime and endTime
\* moved back by offsetHours hours, cut to whole seconds.
C22_RoundTrip ==
    \A h \in Handlers :
        Generated(h) /\ ~AtMidnight(event[h].StartTime) =>
           /\ Holds(Prop(h, "DTSTART"), event[h].StartTime)
           /\ Holds(Prop(h, "DTEND"), event[h].EndTime)

\* 23:30 at -08:00 on 2024-02-28 is 07:30 UTC on the leap day; in
\* America/St_Johns at -03:30 it is written three hours later
C22_Witness ==
    /\ Generated(Solo)
    /\ timezone = "America/St_Johns" /\ offset = -12600
    /\ StartString = "2024-02-28T23:30:00-08:00"
    /\ Prop(Solo, "DTSTART") = Line("DTSTART", "", <<2024, 2, 29, 10, 30, 0>>)

\* the timezone name GenerateICS ends up using for the argument name
UsedZone(name) == IF name \in Unresolvable THEN "UTC" ELSE name

\* C23: every document GenerateICS returns has METHOD REQUEST and exactly
\* one VEVENT, and that VEVENT carries one X-DISPLAY-TIMEZONE whose value is
\* the timezone name used: the argument if it resolves, UTC otherwise.
C23_DocumentShape ==
    \A h \in Handlers :
        Generated(h) =>
           /\ Props(h, "METHOD") = {Line("METHOD", "", <<"REQUEST">>)}
           /\ \E i, j \in DOMAIN icsContent[h] :
                 /\ i < j
                 /\ icsContent[h][i] = Line("BEGIN", "", <<"VEVENT">>)
                 /\ icsContent[h][j] = Line("END", "", <<"VEVENT">>)
                 /\ \A k \in DOMAIN icsContent[h] \ {i, j} :
                       icsContent[h][k].name \in {"BEGIN", "END"} =>
                          icsContent[h][k].value = <<"VCALENDAR">>
                 /\ \E k \in (i + 1)..(j - 1) :
                       icsContent[h][k]
                          = Line("X-DISPLAY-TIMEZONE", "", <<UsedZone(timezone)>>)
           /\ Cardinality(Props(h, "X-DISPLAY-TIMEZONE")) = 1

C23_Witness ==
    /\ Generated(Solo)
    /\ timezone = "Etc/GMT+8"
    /\ Prop(Solo, "X-DISPLAY-TIMEZONE").value = <<"Etc/GMT+8">>
    /\ Prop(Solo, "METHOD").value = <<"REQUEST">>

\* ======================================================================
\* Two handlers at the end of their runs, and the clock
\* ======================================================================
MaxTicks == 2

\* The state of the client when every handler, in extractions of the text
\* kind for user u that followed one another closely, has seen its run on
\* u's thread completed.
AllInRun(u) ==
    /\ threadCache = [v \in Users |-> IF v = u THEN 1 ELSE NoThread]
    /\ assistantID = ConfiguredAssistant
    /\ remoteThreads = {1}
    /\ nextThread = 1
    /\ pc = [h \in Handlers |-> "listMessages"]
    /\ op = [h \in Handlers |-> "text"]
    /\ user = [h \in Handlers |-> u]
    /\ threadID = [h \in Handlers |-> NoThread]
    /\ exists = [h \in Handlers |-> FALSE]
    /\ thread = [h \in Handlers |-> 1]
    /\ handle = [h \in Handlers |-> 1]
    /\ pollCount = [h \in Handlers |-> 1]
    /\ tempFile = [h \in Handlers |-> FALSE]
    /\ calls = [h \in Handlers |->
                   CallsOfRun("text", <<Call("Runs.Get", "completed")>>)]
    /\ ret = [h \in Handlers |-> NoReturn]
    /\ conc = [h \in Handlers |-> {}]
    /\ followsClear = [h \in Handlers |-> FALSE]
    /\ origin = IF u = Watched THEN 1 ELSE NoOrigin
    /\ raced = FALSE
    /\ lastDone = IF u = Watched THEN "resolve" ELSE "none"
    /\ evicted = NoThread
    /\ lastWrite = IF u = Watched THEN 1 ELSE NoThread
    /\ started = NumHandlers
    /\ assistants = <<>>
    /\ sent = [h \in Handlers |-> <<Processing>>]
    /\ NoPreferences

\* Half a second passes.
Tick ==
    /\ now.sec < Afternoon.sec + MaxTicks
    /\ now' = IF now.nsec = 0
              THEN [now EXCEPT !.nsec = HalfSecond]
              ELSE [now EXCEPT !.sec = @ + 1, !.nsec = 0]
    /\ UNCHANGED <<callVars, runStatus, messages, parseLocals, icsVars,
                   assistants, sent, botVars>>

InitUID ==
    /\ \E u \in Users : AllInRun(u)
    /\ runStatus = "completed"
    /\ messages \in {TimesReply("2025-03-10T09:30:15Z", ""),
                     TimesReply("2025-03-10T00:00:00Z", "")}
    /\ now = Afternoon
    /\ NoLocals
    /\ timezone \in {"UTC", "Asia/Kolkata"}
    /\ offset = 0
    /\ icsContent = [h \in Handlers |-> <<>>]

\* Each handler lists the messages and encodes its Event while time passes.
NextUID ==
    \/ \E h \in Handlers : ExtractEvent(h)
    \/ \E h \in Handlers : GenerateICS(h)
    \/ Tick

SpecUID == InitUID /\ [][NextUID]_vars

\* C24 as stated: the calendar component of every document has one UID, and
\* two GenerateICS calls of one process, those of handlers running side by
\* side included, never produce the same UID.
C24_AsStated ==
    \A h \in Handlers :
        Generated(h) =>
           /\ Cardinality(Props(h, "UID")) = 1
           /\ \A other \in Handlers \ {h} :
                 Generated(other) => Prop(other, "UID") # Prop(h, "UID")

\* two documents made half a second apart in the same second of the clock
C24_Witness ==
    /\ \A h \in Handlers : Generated(h)
    /\ \A h \in Handlers : Prop(h, "UID") = Prop(Solo, "UID")
    /\ \E h \in Handlers :
          Prop(h, "DTSTAMP").value # FormatStamp(In(now, 0))

\* ======================================================================
\* Properties of the assistant identity
\* ======================================================================
\* InitializeAssistant has once returned nil with the ID the client holds:
\* an ID adopted by name comes from nowhere else, and the configured ID is
\* still held after a thread was created, which no call does before its
\* InitializeAssistant has returned nil.
Resolved ==
    \/ assistantID = NamedAssistant
    \/ assistantID = ConfiguredAssistant /\ nextThread > 0

\* C25 as stated: once the assistant identity has been resolved it is
\* cached for the process; no later call resets it to empty or replaces it,
\* so every later run is started against that ID.
C25_AsStated == [][Resolved => assistantID' = assistantID]_vars

\* a later extraction whose Assistants.Get failed has emptied the ID that
\* an earlier extraction had resolved
C25_Witness ==
    /\ nextThread > 0
    /\ pc[Solo] = "listAssistants"
    /\ Called(Solo, "Assistants.Get", "err")
    /\ assistantID = NoAssistant

\* the last call handler h made
LastCall(h) == calls[h][Len(calls[h])]

\* the step is the return of a remote call of this name with this result
Answered(h, name, result) ==
    /\ Len(calls'[h]) = Len(calls[h]) + 1
    /\ calls'[h][Len(calls'[h])] = Call(name, result)

\* the ID of the listed assistant of the fixed display name that stands
\* before all others of that name
FirstOfName ==
    IF \A i \in DOMAIN assistants : assistants[i].name # "Calendar Assistant"
    THEN NoAssistant
    ELSE LET i == CHOOSE k \in DOMAIN assistants :
                     /\ assistants[k].name = "Calendar Assistant"
                     /\ \A j \in 1..(k - 1) :
                           assistants[j].name # "Calendar Assistant"
         IN  assistants[i].id

Created(h) ==
    /\ op[h] = "image"
    /\ pc[h] \in {"writeTemp", "openTemp", "upload", "postMessage",
                  "createRun", "poll", "listMessages"}

\* C27: on every return path of ExtractEventFromImage taken after the
\* temporary image file was created (write failure, reopen failure, upload
\* failure, message failure, run failure, poll failure, failure or success
\* of the reading of the reply) the file, which is on disk until then, has
\* been removed when the call returns; no returned call leaves a file.
C27_TempFileRemoved ==
    /\ [](\A h \in Handlers :
            /\ Created(h) => tempFile[h]
            /\ pc[h] = "done" => ~tempFile[h])
    /\ [][\A h \in Handlers :
            Created(h) /\ pc'[h] = "done" =>
                tempFile[h] /\ ~tempFile'[h]]_vars

C27_Witness ==
    /\ op[Solo] = "image" /\ pc[Solo] = "done"
    /\ Called(Solo, "Files.New", "ok")
    /\ Called(Solo, "Messages.New", "err")
    /\ ret[Solo] = [event |-> "nil", err |-> <<"failed to create message">>]
    /\ ~tempFile[Solo]

\* ======================================================================
\* handleMessage: from the update to the reply
\* ======================================================================
\* sendErrorMessage(chatID, fmt.Errorf(...), messageID): "Error: " and the
\* message of the error, without the cause it wraps
ErrorMessage(text) == "Error: " \o text

\* the document sent with the calendar file
ICSFile == "event.ics"

botFrame ==
    <<threadCache, assistantID, remoteVars, resolveLocals, handle, pollCount,
      tempFile, calls, ret, historyVars, runStatus, messages, now,
      parseLocals, icsVars, assistants, botVars>>

\* go b.handleMessage(update.Message) for a message of user u that is no
\* command and holds a text (kind "text") or a photo (kind "image"), up to
\* the call of ExtractEventFromText / ExtractEventFromImage.  timezone is
\* prefs.Timezone of the sender.
HandleMessage(h, u, kind) ==
    /\ pc[h] = "idle"
    /\ started < MaxCalls
    /\ started' = started + 1
    /\ user' = [user EXCEPT ![h] = u]
    /\ IF timezone = "UTC"
       THEN \* prefs.Timezone == "UTC" && !message.IsCommand(): return
            /\ sent' = [sent EXCEPT ![h] = <<TimezoneRequest>>]
            /\ pc' = [pc EXCEPT ![h] = "replied"]
            /\ UNCHANGED op
       ELSE \E fetched \in BOOLEAN :
               IF kind = "image" /\ ~fetched
               THEN \* GetFileDirectURL or downloadFile failed
                    /\ sent' = [sent EXCEPT
                                   ![h] = <<Processing,
                                            ErrorMessage("failed to download photo")>>]
                    /\ pc' = [pc EXCEPT ![h] = "replied"]
                    /\ UNCHANGED op
               ELSE /\ sent' = [sent EXCEPT ![h] = <<Processing>>]
                    /\ pc' = [pc EXCEPT ![h] = "initAssistant"]
                    /\ op' = [op EXCEPT ![h] = kind]
    /\ UNCHANGED botFrame

\* ReplyError returning without a word.
ReplyError_Silent(h) ==
    /\ pc[h] = "done"
    /\ op[h] \in ExtractOps
    /\ ret[h].err # NoError
    /\ pc' = [pc EXCEPT ![h] = "replied"]
    /\ UNCHANGED <<botFrame, op, user, started, sent>>

\* if extractErr != nil { sendErrorMessage(...); return }
ReplyError(h) ==
    /\ pc[h] = "done"
    /\ op[h] \in ExtractOps
    /\ ret[h].err # NoError
    /\ sent' = [sent EXCEPT
                   ![h] = Append(@, ErrorMessage("failed to extract event"))]
    /\ pc' = [pc EXCEPT ![h] = "replied"]
    /\ UNCHANGED <<botFrame, op, user, started>>

\* After GenerateICS: os.WriteFile(tempFile, icsData, 0644), the processing
\* message is deleted (a failure of that is logged only), the document is
\* sent and, if that fails, an error message after it; defer
\* os.Remove(tempFile).
SendDocument(h) ==
    /\ pc[h] = "done"
    /\ icsContent[h] # <<>>
    /\ \E saved \in BOOLEAN, deleted \in BOOLEAN, delivered \in BOOLEAN :
          sent' = [sent EXCEPT
                      ![h] = IF ~saved
                             THEN Append(@, ErrorMessage("failed to save ICS file"))
                             ELSE (IF deleted THEN <<>> ELSE @)
                                  \o <<ICSFile>>
                                  \o (IF delivered THEN <<>>
                                      ELSE <<ErrorMessage("failed to send ICS file")>>)]
    /\ pc' = [pc EXCEPT ![h] = "replied"]
    /\ UNCHANGED <<botFrame, op, user, started>>

\* handleMessage has returned.
HandlerReturns(h) == pc[h] = "replied" /\ Released(h)

\* The bot of a chat whose users all have the preference timezone: never
\* set (the default "UTC" of getUserPreferences) or set to a zone before.
InitBot ==
    /\ \E configured \in {NoAssistant, ConfiguredAssistant} :
          FreshClient(configured)
    /\ assistants \in Listings
    /\ runStatus = NoRun
    /\ messages \in WholeThreads
    /\ now = Afternoon
    /\ NoLocals
    /\ timezone \in {"UTC", "Europe/Moscow"}
    /\ offset = 0
    /\ icsContent = [h \in Handlers |-> <<>>]

\* One message after the other, each from its arrival to the return of its
\* handler.
NextBot ==
    \/ \E u \in Users, kind \in ExtractOps : HandleMessage(Solo, u, kind)
    \/ InitAssistantGet(Solo)
    \/ InitAssistantList(Solo)
    \/ CacheRead(Solo)
    \/ ProbeThread(Solo)
    \/ CreateThread(Solo)
    \/ CacheWrite(Solo)
    \/ CreateTemp(Solo)
    \/ WriteTemp(Solo)
    \/ OpenTemp(Solo)
    \/ UploadImage(Solo)
    \/ PostMessage(Solo)
    \/ CreateRun(Solo)
    \/ PollRun(Solo)
    \/ ExtractEvent(Solo)
    \/ ReplyError(Solo)
    \/ GenerateICS(Solo)
    \/ SendDocument(Solo)
    \/ HandlerReturns(Solo)

SpecBot == InitBot /\ [][NextBot]_vars

\* C28: when the sender has never set a timezone (the preference is the
\* default "UTC"), a text or image message that is no command is still
\* processed: the handler that takes it up announces the processing and goes
\* on to the extraction (or, for a photo, fails to fetch it) instead of
\* turning the message away, and the calendar file is made with UTC.
C28_AsStated ==
    [][\A h \in Handlers :
          pc[h] = "idle" /\ pc'[h] # "idle" /\ timezone = "UTC" =>
              /\ sent'[h] # <<>>
              /\ sent'[h][1] = Processing
              /\ TimezoneRequest \notin {sent'[h][i] : i \in 1..Len(sent'[h])}]_vars

C28_Witness ==
    /\ timezone = "UTC"
    /\ pc[Solo] = "replied"
    /\ sent[Solo] = <<TimezoneRequest>>
    /\ op[Solo] = "none" /\ calls[Solo] = <<>> /\ icsContent[Solo] = <<>>

\* ================================================= the order of the steps
\* The place of a remote call in the order of the steps.
Rank(name) ==
    CASE name = "Assistants.Get" -> 1
      [] name = "Assistants.List" -> 2
      [] name = "Threads.Get" -> 3
      [] name = "Threads.New" -> 4
      [] name = "Files.New" -> 5
      [] name = "Messages.New" -> 6
      [] name = "Runs.New" -> 7
      [] name = "Runs.Get" -> 8
      [] name = "Messages.List" -> 9

\* The calls after which an extraction of the given kind may make call cur.
Before(cur, kind) ==
    LET assistant == {Call("Assistants.Get", "ok"),
                      Call("Assistants.List", "ok")}
        resolved == {Call("Threads.Get", "ok"), Call("Threads.New", "ok")}
    IN  CASE cur = "Assistants.Get" -> {}
          [] cur = "Assistants.List" -> {Call("Assistants.Get", "err")}
          [] cur = "Threads.Get" -> assistant
          [] cur = "Threads.New" ->
                assistant \cup {Call("Threads.Get", "err")}
          [] cur = "Files.New" -> IF kind = "image" THEN resolved ELSE {}
          [] cur = "Messages.New" ->
                IF kind = "image" THEN {Call("Files.New", "ok")}
                ELSE resolved
          [] cur = "Runs.New" -> {Call("Messages.New", "ok")}
          [] cur = "Runs.Get" -> {Call("Runs.New", "ok")}
          [] cur = "Messages.List" -> {Call("Runs.Get", "completed")}

\* The step this call belongs to has failed: the call failed and the step
\* has no other call to fall back on, or the run ended without a reply.
StepFailed(call) ==
    \/ call.result = "err" /\ call.op \notin {"Assistants.Get", "Threads.Get"}
    \/ call.op = "Runs.Get" /\ call.result \in FailureStatuses

\* C29: within one extract call the remote operations come in the fixed
\* order assistant resolution, thread resolve, image upload (for an image),
\* message post, run creation, status polls, message list, each made only
\* after the one before it succeeded; when a step fails the call returns an
\* error at once and makes no call of a later step.
C29_FixedOrder ==
    \A h \in Handlers :
        LET made == calls[h]
        IN  op[h] \in ExtractOps =>
              /\ \A i, j \in 1..Len(made) :
                    i < j => Rank(made[i].op) < Rank(made[j].op)
              /\ \A i \in 1..Len(made) :
                    /\ IF i = 1
                       THEN made[i].op \in {"Assistants.Get", "Assistants.List"}
                       ELSE made[i - 1] \in Before(made[i].op, op[h])
                    /\ StepFailed(made[i]) =>
                          /\ i = Len(made)
                          /\ pc[h] = "done"
                          /\ ret[h].event = "nil"
                          /\ ret[h].err # NoError

C29_Witness ==
    /\ op[Solo] = "image" /\ pc[Solo] = "done"
    /\ ret[Solo].event = "event"
    /\ calls[Solo] = <<Call("Assistants.Get", "err"),
                       Call("Assistants.List", "ok"),
                       Call("Threads.Get", "err"),
                       Call("Threads.New", "ok"),
                       Call("Files.New", "ok"),
                       Call("Messages.New", "ok"),
                       Call("Runs.New", "ok"),
                       Call("Runs.Get", "completed"),
                       Call("Messages.List", "ok")>>

\* C30: a failed status fetch during polling, or a failed message list after
\* the run completed, is not tried again: the first such error makes the
\* extraction return that error and no Event, and the failed call is the
\* last remote call it makes.
C30_NoRetry ==
    /\ [][\A h \in Handlers :
            /\ pc[h] = "poll" /\ Has(calls'[h], "Runs.Get", "err") =>
                  /\ pc'[h] = "done"
                  /\ ret'[h] = [event |-> "nil",
                                err |-> <<"failed to retrieve run">>]
                  /\ pollCount'[h] = pollCount[h] + 1
            /\ pc[h] = "listMessages"
                  /\ Has(calls'[h], "Messages.List", "err") =>
                  /\ pc'[h] = "done"
                  /\ ret'[h] = [event |-> "nil",
                                err |-> <<"failed to list messages">>]
                  /\ event'[h] = NoEvent]_vars
    /\ [](\A h \in Handlers :
            \A name \in {"Runs.Get", "Messages.List"} :
               Called(h, name, "err") =>
                  /\ pc[h] = "done"
                  /\ LastCall(h) = Call(name, "err")
                  /\ Cardinality({i \in 1..Len(calls[h]) :
                                     calls[h][i].op = name}) = 1
                  /\ ret[h].event = "nil")

C30_Witness ==
    /\ pc[Solo] = "done"
    /\ pollCount[Solo] = MaxPolls
    /\ LastCall(Solo) = Call("Runs.Get", "err")
    /\ ret[Solo] = [event |-> "nil", err |-> <<"failed to retrieve run">>]

\* C31 as stated: for an all-day event (the original startTime at
\* 00:00:00) the date in the date-only DTSTART is the calendar date of the
\* original startTime, for every timezone argument, whether its offset is
\* positive, zero or negative.
C31_AsStated ==
    \A h \in Handlers :
        Generated(h) /\ AtMidnight(event[h].StartTime) =>
           (Prop(h, "DTSTART").param = "VALUE=DATE" =>
               Prop(h, "DTSTART").value = FormatDay(event[h].StartTime))

\* the all-day event of 2025-06-01 for a user in Europe/Moscow (+03:00) is
\* dated 20250531
C31_Witness ==
    /\ Generated(Solo)
    /\ timezone = "Europe/Moscow" /\ offset = 10800
    /\ StartString = "2025-06-01T00:00:00Z"
    /\ Prop(Solo, "DTSTART") = Line("DTSTART", "VALUE=DATE", <<2025, 5, 31>>)

\* the value form of a DTSTART or DTEND line
Form(line) ==
    IF line.param = "VALUE=DATE" /\ Len(line.value) = 3 THEN "date"
    ELSE IF line.param = "" /\ Len(line.value) = 6 THEN "timestamp"
    ELSE "other"

\* C32 as stated: in every document GenerateICS returns DTSTART and DTEND
\* have the same value form, both UTC timestamps or both date-only values.
C32_AsStated ==
    \A h \in Handlers :
        Generated(h) =>
           /\ Form(Prop(h, "DTSTART")) \in {"date", "timestamp"}
           /\ Form(Prop(h, "DTEND")) = Form(Prop(h, "DTSTART"))

\* an all-day start with an end at 10:30: DTSTART is a date, DTEND a
\* timestamp
C32_Witness ==
    /\ Generated(Solo)
    /\ timezone = "UTC"
    /\ StartString = "2025-06-01T00:00:00Z"
    /\ Prop(Solo, "DTSTART") = Line("DTSTART", "VALUE=DATE", <<2025, 6, 1>>)
    /\ Form(Prop(Solo, "DTEND")) = "timestamp"

\* the instant of a is after the instant of b
Later(a, b) == a.sec > b.sec \/ (a.sec = b.sec /\ a.nsec > b.nsec)

\* C39: whenever the extraction substitutes endTime (end_time empty or not
\* a valid timestamp) the Event returned has endTime strictly later than
\* startTime; an end_time that parses is returned as parsed, whether it is
\* after startTime or not.
C39_SubstitutedEndIsLater ==
    \A h \in Handlers :
        Timed(h) =>
           IF Written(EndString) = <<>>
           THEN Later(event[h].EndTime, event[h].StartTime)
           ELSE /\ Shows(event[h].EndTime, EndString)
                /\ event[h].EndTime.nsec = 0

\* an end on 10 March for a start on 1 June is returned as it is
C39_Witness ==
    /\ Timed(Solo)
    /\ StartString = "2025-06-01T00:00:00Z"
    /\ EndString = "2025-03-10T10:30:00Z"
    /\ ret[Solo].event = "event"
    /\ Later(event[Solo].StartTime, event[Solo].EndTime)

\* the instant a DTSTART or DTEND line holds, a date-only value being the
\* start of its day
Moment(line) ==
    LET v == line.value
    IN  IF Len(v) = 3 THEN Date(v[1], v[2], v[3], 0, 0, 0, 0)
        ELSE Date(v[1], v[2], v[3], v[4], v[5], v[6], 0)

\* C40 as stated: the offset compensation moves start and end by the same
\* amount: for every event and timezone the encoded end minus the encoded
\* start is the original endTime minus the original startTime (in whole
\* seconds, which is what the document holds), and GenerateICS leaves the
\* fields of the Event it is given as they were.
C40_AsStated ==
    /\ [](\A h \in Handlers :
            Generated(h) =>
               Moment(Prop(h, "DTEND")).sec - Moment(Prop(h, "DTSTART")).sec
                  = event[h].EndTime.sec - event[h].StartTime.sec)
    /\ [][\A h \in Handlers :
            icsContent'[h] # icsContent[h] => event'[h] = event[h]]_vars

\* a start at midnight of 2025-03-10 and an end at 10:30 for a user in
\* Europe/Moscow: DTSTART is the date 20250309, DTEND the timestamp of the
\* end three hours earlier; ten and a half hours have become thirty-one and
\* a half
C40_Witness ==
    /\ Generated(Solo)
    /\ timezone = "Europe/Moscow" /\ offset = 10800
    /\ StartString = "2025-03-10T00:00:00Z"
    /\ EndString = "2025-03-10T10:30:00Z"
    /\ Prop(Solo, "DTSTART") = Line("DTSTART", "VALUE=DATE", <<2025, 3, 9>>)
    /\ Prop(Solo, "DTEND") = Line("DTEND", "", <<2025, 3, 10, 7, 30, 0>>)

\* ======================================================================
\* The /timezone command
\* ======================================================================
\* the arguments as the user typed them
Spelled(arg) ==
    IF arg.sign = "" THEN arg.head
    ELSE arg.head \o arg.sign \o ToString(arg.hours)
         \o (IF arg.minutes = NoMinutes THEN ""
             ELSE ":" \o ToString(arg.minutes))

\* strings.EqualFold(a, b) for b in capitals
EqualFold(a, b) ==
    \/ a = b
    \/ b = "GMT" /\ a \in {"gmt", "Gmt"}
    \/ b = "UTC" /\ a \in {"utc", "Utc"}

\* fmt.Errorf(...) of parseTimezone
ErrHours == <<"invalid GMT offset: hours must be between 0 and 14">>
ErrMinutes == <<"invalid GMT offset: minutes must be between 0 and 59">>
ErrFormat == <<"invalid timezone format">>

\* b.parseTimezone(timezoneStr): [timezone, err]
parseTimezone(arg) ==
    IF LoadLocation(Spelled(arg)).ok
    THEN [timezone |-> Spelled(arg), err |-> NoError]
    ELSE IF arg.sign = ""
    THEN \* just "GMT" or "UTC", in any case
         IF EqualFold(arg.head, "GMT") \/ EqualFold(arg.head, "UTC")
         THEN [timezone |-> "UTC", err |-> NoError]
         ELSE [timezone |-> "", err |-> ErrFormat]
    ELSE IF ~(EqualFold(arg.head, "GMT") \/ EqualFold(arg.head, "UTC"))
    THEN \* gmtPattern does not match
         [timezone |-> "", err |-> ErrFormat]
    ELSE IF arg.hours > 14
    THEN [timezone |-> "", err |-> ErrHours]
    ELSE IF arg.minutes # NoMinutes /\ arg.minutes >= 60
    THEN [timezone |-> "", err |-> ErrMinutes]
    ELSE LET hours == IF arg.minutes # NoMinutes /\ arg.minutes >= 30
                      THEN arg.hours + 1 ELSE arg.hours
             invertedSign == IF arg.sign = "+" THEN "-" ELSE "+"
         IN  [timezone |-> EtcName(invertedSign, hours), err |-> NoError]

\* b.formatTimezoneForDisplay(timezone)
formatTimezoneForDisplay(zone) ==
    LET etc == {z \in [sign : {"+", "-"}, hours : 0..15] :
                   EtcName(z.sign, z.hours) = zone}
    IN  IF etc = {} THEN zone
        ELSE LET z == CHOOSE y \in etc : TRUE
             IN  "GMT" \o (IF z.sign = "+" THEN "-" ELSE "+")
                 \o ToString(z.hours)

TimezoneSet(zone) ==
    "Your timezone has been set to: " \o formatTimezoneForDisplay(zone)
InvalidTimezone(arg) == "Invalid timezone: " \o Spelled(arg)

\* what users type after /timezone
TimezoneArgs ==
    {Name("Europe/Moscow"), Name("UTC"), Name("utc"), Name("GMT"),
     Name("Etc/UTC"), Name("Moscow"),
     Arg("GMT", "+", 0, NoMinutes), Arg("GMT", "+", 3, NoMinutes),
     Arg("UTC", "-", 8, NoMinutes), Arg("gmt", "-", 5, 30),
     Arg("GMT", "+", 5, 29), Arg("GMT", "+", 14, NoMinutes),
     Arg("GMT", "+", 14, 30), Arg("GMT", "-", 13, NoMinutes),
     Arg("GMT", "+", 15, NoMinutes), Arg("GMT", "+", 3, 60),
     Arg("EST", "+", 3, NoMinutes)}

\* go b.handleMessage(update.Message) for the command /timezone with
\* arguments arg of user u: case "timezone" with args != "".  timezone is
\* prefs.Timezone of u.
TimezoneCommand(h, u, arg) ==
    LET parsed == parseTimezone(arg)
    IN  /\ pc[h] = "idle"
        /\ started < MaxCalls
        /\ started' = started + 1
        /\ user' = [user EXCEPT ![h] = u]
        /\ args' = [args EXCEPT ![h] = arg]
        /\ pc' = [pc EXCEPT ![h] = "replied"]
        /\ IF parsed.err = NoError
           THEN \* b.setUserTimezone(userID, timezone)
                /\ timezone' = parsed.timezone
                /\ lastSet' = [lastSet EXCEPT ![u] = parsed.timezone]
                /\ sent' = [sent EXCEPT ![h] = <<TimezoneSet(parsed.timezone)>>]
           ELSE /\ sent' = [sent EXCEPT ![h] = <<InvalidTimezone(arg)>>]
                /\ UNCHANGED <<timezone, lastSet>>
        /\ UNCHANGED <<threadCache, assistantID, remoteVars, resolveLocals,
                       handle, pollCount, tempFile, calls, ret, historyVars,
                       runStatus, messages, now, parseLocals, offset,
                       icsContent, assistants, op, userPreferences,
                       preferences, prefs, expected, messageID, icsFiles>>

\* The chat of one user: /timezone commands and messages, one after the
\* other, each from its arrival to the return of its handler.  timezone is
\* the Timezone of the user's preferences, "UTC" until it is set.
InitTimezone ==
    /\ FreshClient(ConfiguredAssistant)
    /\ assistants = <<>>
    /\ runStatus = NoRun
    /\ messages = <<Request, Message("assistant", <<Block("text", TimedText)>>)>>
    /\ now = Afternoon
    /\ NoLocals
    /\ NoCalendar

NextTimezone ==
    \/ \E arg \in TimezoneArgs : TimezoneCommand(Solo, Watched, arg)
    \/ \E kind \in ExtractOps : HandleMessage(Solo, Watched, kind)
    \/ InitAssistantGet(Solo)
    \/ InitAssistantList(Solo)
    \/ CacheRead(Solo)
    \/ ProbeThread(Solo)
    \/ CreateThread(Solo)
    \/ CacheWrite(Solo)
    \/ CreateTemp(Solo)
    \/ WriteTemp(Solo)
    \/ OpenTemp(Solo)
    \/ UploadImage(Solo)
    \/ PostMessage(Solo)
    \/ CreateRun(Solo)
    \/ PollRun(Solo)
    \/ ExtractEvent(Solo)
    \/ ReplyError(Solo)
    \/ GenerateICS(Solo)
    \/ SendDocument(Solo)
    \/ HandlerReturns(Solo)

SpecTimezone == InitTimezone /\ [][NextTimezone]_vars

\* ======================================================================
\* Properties of the /timezone command
\* ======================================================================
\* handler h has handled /timezone with a GMT or UTC offset as argument
OffsetCommand(h) ==
    /\ pc[h] = "replied"
    /\ args[h].sign # ""
    /\ args[h].head \in {"GMT", "UTC", "gmt", "utc"}

\* the hour the offset of the argument is nearest to
NearestHour(arg) ==
    IF arg.minutes \in 30..59 THEN arg.hours + 1 ELSE arg.hours

\* C36 as stated: every GMT/UTC offset string that parseTimezone accepts
\* gives a zone name Etc/GMT<sign><h> with h from 0 to 14 and the sign the
\* opposite of the one typed (GMT+3 gives Etc/GMT-3), also when minutes of
\* 30 to 59 round the hour up; a string with hours above 14 or minutes
\* above 59 is rejected and the user's stored timezone stays as it was.
C36_AsStated ==
    /\ [](\A h \in Handlers :
            OffsetCommand(h) /\ sent[h] = <<TimezoneSet(timezone)>> =>
               \E hours \in 0..14 :
                  /\ hours = NearestHour(args[h])
                  /\ timezone = EtcName(IF args[h].sign = "+" THEN "-" ELSE "+",
                                        hours))
    /\ [][\A h \in Handlers :
            (/\ OffsetCommand(h)'
             /\ pc[h] = "idle"
             /\ (args'[h].hours > 14 \/ args'[h].minutes > 59)) =>
                  /\ sent'[h] = <<InvalidTimezone(args'[h])>>
                  /\ timezone' = timezone]_vars

\* /timezone GMT+14:30 is accepted and stores Etc/GMT-15
C36_Witness ==
    /\ OffsetCommand(Solo)
    /\ args[Solo] = Arg("GMT", "+", 14, 30)
    /\ timezone = "Etc/GMT-15"
    /\ sent[Solo] = <<"Your timezone has been set to: GMT+15">>
    /\ ZoneOffsets(timezone) = {}

\* C35 as stated: after a /timezone command has been accepted for a user
\* (the bot replied that the timezone has been set), the user's next message
\* that is no command is submitted for extraction, not answered with the
\* request to set a timezone, for every accepted value, UTC and GMT
\* included.
C35_AsStated ==
    [][\A h \in Handlers :
          (/\ pc[h] = "idle" /\ pc'[h] # "idle"
           /\ args'[h] = NoArgs
           /\ lastSet[user'[h]] # NoTimezone) =>
                /\ sent'[h] # <<TimezoneRequest>>
                /\ sent'[h][1] = Processing]_vars

\* /timezone UTC was accepted, and the message after it is turned away
C35_Witness ==
    /\ lastSet[Watched] = "UTC"
    /\ pc[Solo] = "replied" /\ user[Solo] = Watched
    /\ args[Solo] = NoArgs
    /\ sent[Solo] = <<TimezoneRequest>>

\* ============================================================ the replies
\* handleMessage of handler h is over, its extraction call having returned
Replied(h) == pc[h] = "replied" /\ op[h] \in ExtractOps

\* what handler h handed to Send besides the processing message
Finals(h) == SelectSeq(sent[h], LAMBDA m : m # Processing)

\* C38 as the specification states it: once the extraction call of a
\* handler has returned, the handler ends with exactly one attempt of a
\* final reply, the calendar document when the extraction gave an event and
\* an error message otherwise.
C38_AsStated ==
    \A h \in Handlers :
        Replied(h) =>
            /\ Len(Finals(h)) = 1
            /\ Finals(h)[1] = ICSFile => ret[h].event = "event"
            /\ ret[h].err # NoError => Finals(h)[1] # ICSFile

\* C38: once the extraction call of a handler has returned, the handler ends
\* with one final reply, or with two when sending the document fails: after
\* a failed extraction the one error message "failed to extract event" and
\* no document; after an extraction that gave an event either the document
\* alone, or the error message of a failed file write alone, or the document
\* followed by the error message of its failed sending.
C38_FinalReply ==
    \A h \in Handlers :
        Replied(h) =>
            IF ret[h].err # NoError
            THEN Finals(h) = <<ErrorMessage("failed to extract event")>>
            ELSE /\ ret[h].event = "event"
                 /\ icsContent[h] # <<>>
                 /\ Finals(h) \in
                        {<<ICSFile>>,
                         <<ErrorMessage("failed to save ICS file")>>,
                         <<ICSFile, ErrorMessage("failed to send ICS file")>>}

\* sending the document failed: the document and an error message after it
C38_Witness ==
    /\ Replied(Solo)
    /\ ret[Solo].event = "event"
    /\ Finals(Solo) = <<ICSFile, ErrorMessage("failed to send ICS file")>>

\* the single final reply of a failed extraction
C38_WitnessError ==
    /\ Replied(Solo)
    /\ ret[Solo].err # NoError
    /\ Finals(Solo) = <<ErrorMessage("failed to extract event")>>

\* ======================================================================
\* getUserPreferences and setUserTimezone of concurrent handlers
\* ======================================================================
\* everything of a handler but its position, its call and its prefs
prefsFrame ==
    <<threadCache, assistantID, remoteVars, resolveLocals, handle, pollCount,
      tempFile, calls, ret, historyVars, runStatus, messages, now,
      parseLocals, icsVars, assistants, sent, messageID, icsFiles>>

\* the timezones the users set
SetTimezones == {"Europe/Moscow", "America/New_York"}

\* some other handler is inside setUserTimezone for user u
Setting(h, u) ==
    \E g \in Handlers \ {h} : user[g] = u /\ op[g] = "set" /\ pc[g] # "done"

\* where a call goes once it holds prefs
Held(h) == IF op[h] = "set" THEN "prefsSet" ELSE "done"

\* A handler calls getUserPreferences(userID) for user u.
GetUserPreferences(h, u) ==
    /\ pc[h] = "idle"
    /\ started < MaxCalls
    /\ started' = started + 1
    /\ pc' = [pc EXCEPT ![h] = "prefsRead"]
    /\ op' = [op EXCEPT ![h] = "get"]
    /\ user' = [user EXCEPT ![h] = u]
    /\ expected' = [expected EXCEPT
                       ![h] = IF Setting(h, u) THEN NoTimezone ELSE lastSet[u]]
    /\ UNCHANGED <<prefsFrame, userPreferences, preferences, prefs, lastSet,
                   args>>

\* A handler calls setUserTimezone(userID, timezone) for user u; the calls
\* for u that are under way no longer follow a finished setUserTimezone.
SetUserTimezone(h, u, zone) ==
    /\ pc[h] = "idle"
    /\ started < MaxCalls
    /\ started' = started + 1
    /\ pc' = [pc EXCEPT ![h] = "prefsRead"]
    /\ op' = [op EXCEPT ![h] = "set"]
    /\ user' = [user EXCEPT ![h] = u]
    /\ args' = [args EXCEPT ![h] = Name(zone)]
    /\ expected' = [g \in Handlers |->
                       IF g = h
                       THEN (IF Setting(h, u) THEN NoTimezone ELSE zone)
                       ELSE IF user[g] = u THEN NoTimezone ELSE expected[g]]
    /\ lastSet' = [lastSet EXCEPT ![u] = NoTimezone]
    /\ UNCHANGED <<prefsFrame, userPreferences, preferences, prefs>>

\* b.prefMutex.RLock(); prefs, exists := b.userPreferences[userID]; RUnlock()
PrefsRead(h) ==
    /\ pc[h] = "prefsRead"
    /\ prefs' = [prefs EXCEPT ![h] = userPreferences[user[h]]]
    /\ pc' = [pc EXCEPT
                 ![h] = IF userPreferences[user[h]] # NoPrefs
                        THEN Held(h) ELSE "prefsCreate"]
    /\ UNCHANGED <<prefsFrame, op, user, started, userPreferences,
                   preferences, lastSet, expected, args>>

\* if !exists { prefs = &UserPreferences{Timezone: "UTC"}; Lock();
\*              b.userPreferences[userID] = prefs; Unlock() }
PrefsCreate(h) ==
    /\ pc[h] = "prefsCreate"
    /\ preferences' = Append(preferences, "UTC")
    /\ prefs' = [prefs EXCEPT ![h] = Len(preferences) + 1]
    /\ userPreferences' =
          [userPreferences EXCEPT ![user[h]] = Len(preferences) + 1]
    /\ pc' = [pc EXCEPT ![h] = Held(h)]
    /\ UNCHANGED <<prefsFrame, op, user, started, lastSet, expected, args>>

\* setUserTimezone: Lock(); prefs.Timezone = timezone; Unlock(); return
PrefsSet(h) ==
    /\ pc[h] = "prefsSet"
    /\ preferences' = [preferences EXCEPT ![prefs[h]] = args[h].head]
    /\ lastSet' = [lastSet EXCEPT ![user[h]] = expected[h]]
    /\ pc' = [pc EXCEPT ![h] = "done"]
    /\ UNCHANGED <<prefsFrame, op, user, started, userPreferences, prefs,
                   expected, args>>

\* The bot as NewBot leaves it: no user has preferences yet.
InitPrefs ==
    /\ FreshClient(ConfiguredAssistant)
    /\ assistants = <<>>
    /\ runStatus = NoRun
    /\ messages = <<>>
    /\ now = Afternoon
    /\ NoLocals
    /\ NoCalendar

NextPrefs ==
    \E h \in Handlers :
        \/ \E u \in Users : GetUserPreferences(h, u)
        \/ \E u \in Users, zone \in SetTimezones : SetUserTimezone(h, u, zone)
        \/ PrefsRead(h)
        \/ PrefsCreate(h)
        \/ PrefsSet(h)
        \/ Finish(h)

SpecPrefs == InitPrefs /\ [][NextPrefs]_vars

\* the timezone a finished getUserPreferences of handler h returns
Returned(h) == preferences[prefs[h]]

\* C34: a getUserPreferences(u) that began after a setUserTimezone(u, tz) had
\* returned, no other setUserTimezone for u having begun since, returns the
\* timezone tz, whatever other handlers of the same user do meanwhile.
C34_AsStated ==
    \A h \in Handlers :
        (pc[h] = "done" /\ op[h] = "get" /\ expected[h] # NoTimezone) =>
            Returned(h) = expected[h]

\* a getUserPreferences that followed a finished setUserTimezone returns the
\* default of a preferences object another handler put into the map
C34_Witness ==
    \E h \in Handlers :
        /\ pc[h] = "done" /\ op[h] = "get"
        /\ expected[h] \in SetTimezones
        /\ Returned(h) = "UTC"
        /\ \E i \in 1..Len(preferences) : preferences[i] = expected[h]

\* ======================================================================
\* The temporary calendar files of concurrent handlers
\* ======================================================================
\* everything but the position of a handler, its message and the files
filesFrame ==
    <<threadCache, assistantID, remoteVars, resolveLocals, handle, pollCount,
      tempFile, calls, ret, historyVars, runStatus, messages, now,
      parseLocals, icsVars, assistants, userPreferences, preferences, prefs,
      lastSet, expected, args>>

\* some other handler is busy with message m of the chat of user u
Handled(h, u, m) ==
    \E g \in Handlers \ {h} : user[g] = u /\ messageID[g] = m

\* go b.handleMessage(update.Message) for message m of the chat of user u,
\* up to the calendar document GenerateICS returned.  A message ID is
\* unique within its chat only.
ReceiveMessage(h, u, m) ==
    /\ pc[h] = "idle"
    /\ started < MaxCalls
    /\ ~Handled(h, u, m)
    /\ started' = started + 1
    /\ pc' = [pc EXCEPT ![h] = "writeFile"]
    /\ op' = [op EXCEPT ![h] = "text"]
    /\ user' = [user EXCEPT ![h] = u]
    /\ messageID' = [messageID EXCEPT ![h] = m]
    /\ sent' = [sent EXCEPT ![h] = <<Processing>>]
    /\ UNCHANGED <<filesFrame, icsFiles>>

\* tempFile := filepath.Join(tempDir, fmt.Sprintf("event_%d.ics", messageID))
\* os.WriteFile(tempFile, icsData, 0644)
WriteFile(h) ==
    /\ pc[h] = "writeFile"
    /\ \E saved \in BOOLEAN :
          IF saved
          THEN /\ icsFiles' = [icsFiles EXCEPT ![messageID[h]] = h]
               /\ pc' = [pc EXCEPT ![h] = "sendFile"]
               /\ UNCHANGED sent
          ELSE /\ sent' = [sent EXCEPT
                              ![h] = Append(@, ErrorMessage("failed to save ICS file"))]
               /\ pc' = [pc EXCEPT ![h] = "replied"]
               /\ UNCHANGED icsFiles
    /\ UNCHANGED <<filesFrame, op, user, started, messageID>>

\* The processing message is deleted and b.bot.Send(doc) uploads the file
\* found at tempFile; if there is none, or the upload fails, an error message
\* follows.
SendFile(h) ==
    /\ pc[h] = "sendFile"
    /\ \E deleted \in BOOLEAN, delivered \in BOOLEAN :
          sent' = [sent EXCEPT
                      ![h] = (IF deleted THEN <<>> ELSE @)
                             \o <<ICSFile>>
                             \o (IF delivered /\ icsFiles[messageID[h]] # NoHandler
                                 THEN <<>>
                                 ELSE <<ErrorMessage("failed to send ICS file")>>)]
    /\ pc' = [pc EXCEPT ![h] = "removeFile"]
    /\ UNCHANGED <<filesFrame, op, user, started, messageID, icsFiles>>

\* defer os.Remove(tempFile)
RemoveFile(h) ==
    /\ pc[h] = "removeFile"
    /\ icsFiles' = [icsFiles EXCEPT ![messageID[h]] = NoHandler]
    /\ pc' = [pc EXCEPT ![h] = "replied"]
    /\ UNCHANGED <<filesFrame, op, user, started, messageID, sent>>

\* The bot with no message under way and an empty temporary directory.
InitFiles ==
    /\ FreshClient(ConfiguredAssistant)
    /\ assistants = <<>>
    /\ runStatus = NoRun
    /\ messages = <<>>
    /\ now = Afternoon
    /\ NoLocals
    /\ NoCalendar

NextFiles ==
    \E h \in Handlers :
        \/ \E u \in Users, m \in MessageIDs : ReceiveMessage(h, u, m)
        \/ WriteFile(h)
        \/ SendFile(h)
        \/ RemoveFile(h)
        \/ HandlerReturns(h)

SpecFiles == InitFiles /\ [][NextFiles]_vars

\* the path of the temporary file of handler h
Path(h) == messageID[h]

\* C37 as the specification states it: two messages handled at the same
\* time never have the same temporary file path, and from the moment a
\* handler has written its file until it has sent it the file at its path
\* holds the document this handler wrote.
C37_AsStated ==
    /\ \A h, g \in Handlers :
          (h # g /\ Path(h) # NoMessage /\ Path(g) # NoMessage) =>
              Path(h) # Path(g)
    /\ \A h \in Handlers :
          pc[h] = "sendFile" => icsFiles[Path(h)] = h

\* a handler is about to send the file at its path, and another handler of
\* the same path has overwritten or removed it
C37_Witness ==
    \E h, g \in Handlers :
        /\ h # g
        /\ pc[h] = "sendFile"
        /\ Path(g) = Path(h)
        /\ user[g] # user[h]
        /\ icsFiles[Path(h)] = g

\* the file is gone before it was sent
C37_WitnessRemoved ==
    \E h \in Handlers :
        /\ pc[h] = "sendFile"
        /\ icsFiles[Path(h)] = NoHandler

\* ======================================================================
\* Extractions of one user at the same time, on the user's one thread
\* ======================================================================
\* In SpecShared runStatus holds the status of the run of each handler, and
\* messages is the thread the handlers share.

\* the start times of the events the messages of the handlers tell of
Stamps ==
    <<"2025-03-10T09:30:15Z", "2025-03-10T10:30:00Z", "2025-06-01T00:00:00Z">>
StampOf(h) == Stamps[((h - 1) % Len(Stamps)) + 1]

\* the message the extraction of handler h posts
RequestOf(h) == Message("user", <<Block("text", <<"Today is ...", StampOf(h)>>)>>)

\* the reply the run of handler h adds to the thread
AnswerText(h) == <<"{", StartKey, StampOf(h), "}">>
AnswerOf(h) == Message("assistant", <<Block("text", AnswerText(h))>>)

\* the thread has a run that is not over
ActiveRun == \E g \in Handlers : runStatus[g] = "in_progress"

sharedFrame ==
    <<extractFrame, now, parseLocals, icsVars, assistants, sent, botVars>>

\* Threads.Messages.New(ctx, threadID, ...): the service takes no message
\* while a run of the thread is active.
PostShared(h) ==
    /\ pc[h] = "postMessage"
    /\ \E accepted \in BOOLEAN :
          LET ok == accepted /\ ~ActiveRun
          IN  /\ calls' = [calls EXCEPT
                              ![h] = Append(@, Call("Messages.New", OkErr(ok)))]
              /\ IF ok
                 THEN /\ messages' = Append(messages, RequestOf(h))
                      /\ pc' = [pc EXCEPT ![h] = "createRun"]
                      /\ UNCHANGED <<ret, tempFile>>
                 ELSE /\ Return(h, "nil", <<"failed to create message">>)
                      /\ UNCHANGED messages
    /\ UNCHANGED <<sharedFrame, pollCount, runStatus>>

\* Threads.Runs.New(ctx, threadID, ...): the service starts no run while a
\* run of the thread is active.
RunShared(h) ==
    /\ pc[h] = "createRun"
    /\ \E accepted \in BOOLEAN :
          LET ok == accepted /\ ~ActiveRun /\ assistantID # NoAssistant
          IN  /\ calls' = [calls EXCEPT
                              ![h] = Append(@, Call("Runs.New", OkErr(ok)))]
              /\ IF ok
                 THEN /\ runStatus' = [runStatus EXCEPT ![h] = "in_progress"]
                      /\ pc' = [pc EXCEPT ![h] = "poll"]
                      /\ UNCHANGED <<ret, tempFile>>
                 ELSE /\ Return(h, "nil", <<"failed to create run">>)
                      /\ UNCHANGED runStatus
    /\ UNCHANGED <<sharedFrame, pollCount, messages>>

\* The service: the run of handler h is over, its reply is on the thread.
Completes(h) ==
    /\ runStatus[h] = "in_progress"
    /\ runStatus' = [runStatus EXCEPT ![h] = "completed"]
    /\ messages' = Append(messages, AnswerOf(h))
    /\ UNCHANGED <<sharedFrame, pc, pollCount, tempFile, calls, ret>>

\* One turn of the loop of pollForCompletion on the run of handler h.
PollShared(h) ==
    /\ pc[h] = "poll"
    /\ \E outcome \in {runStatus[h], "err"} : PollStep(h, outcome)
    /\ UNCHANGED <<sharedFrame, runStatus, messages>>

\* The state of the client when every handler, in extractions of the text
\* kind for user u that began together, holds u's thread and is about to
\* post its message.
AllResolved(u) ==
    /\ threadCache = [v \in Users |-> IF v = u THEN 1 ELSE NoThread]
    /\ assistantID = ConfiguredAssistant
    /\ remoteThreads = {1}
    /\ nextThread = 1
    /\ pc = [h \in Handlers |-> "postMessage"]
    /\ op = [h \in Handlers |-> "text"]
    /\ user = [h \in Handlers |-> u]
    /\ threadID = [h \in Handlers |-> NoThread]
    /\ exists = [h \in Handlers |-> FALSE]
    /\ thread = [h \in Handlers |-> NoThread]
    /\ handle = [h \in Handlers |-> 1]
    /\ pollCount = [h \in Handlers |-> 0]
    /\ tempFile = [h \in Handlers |-> FALSE]
    /\ calls = [h \in Handlers |->
                   <<Call("Assistants.Get", "ok"), Call("Threads.Get", "ok")>>]
    /\ ret = [h \in Handlers |-> NoReturn]
    /\ conc = [h \in Handlers |-> {}]
    /\ followsClear = [h \in Handlers |-> FALSE]
    /\ origin = IF u = Watched THEN 1 ELSE NoOrigin
    /\ raced = FALSE
    /\ lastDone = IF u = Watched THEN "resolve" ELSE "none"
    /\ evicted = NoThread
    /\ lastWrite = IF u = Watched THEN 1 ELSE NoThread
    /\ started = NumHandlers
    /\ assistants = <<>>
    /\ sent = [h \in Handlers |-> <<Processing>>]
    /\ NoPreferences

InitShared ==
    /\ AllResolved(Watched)
    /\ runStatus = [h \in Handlers |-> NoRun]
    /\ messages = <<>>
    /\ now = Afternoon
    /\ NoLocals
    /\ NoCalendar

NextShared ==
    \E h \in Handlers :
        \/ PostShared(h)
        \/ RunShared(h)
        \/ Completes(h)
        \/ PollShared(h)
        \/ ExtractEvent(h)
        \/ Finish(h)

SpecShared == InitShared /\ [][NextShared]_vars

\* C33 as the specification states it: an extraction that has listed the
\* thread after its run completed has read the reply of its own run, and
\* returns the Event parsed from it.
C33_AsStated ==
    \A h \in Handlers :
        Listed(h) =>
            /\ ret[h].event = "event"
            /\ jsonContent[h] = AnswerText(h)
            /\ event[h].StartTime = ParseRFC3339(StampOf(h)).time

\* an extraction returns the Event of the reply of the other's run
C33_Witness ==
    \E h, g \in Handlers :
        /\ h # g
        /\ Listed(h)
        /\ ret[h].event = "event"
        /\ jsonContent[h] = AnswerText(g)
        /\ jsonContent[h] # AnswerText(h)

\* an extraction reads the message the other posted
C33_WitnessRequest ==
    \E h \in Handlers :
        /\ Listed(h)
        /\ ret[h].err = <<"unexpected message role: ", "user">>

\* an extraction reads the reply of its own run
C33_WitnessOwn ==
    \E h \in Handlers :
        /\ Listed(h)
        /\ ret[h].event = "event"
        /\ jsonContent[h] = AnswerText(h)
        /\ event[h].StartTime = ParseRFC3339(StampOf(h)).time

====
